---- MODULE Spec2Model ----
(***************************************************************************)
(* A model of asm-processor (rust): the source preprocessor               *)
(* (src/rust/src/preprocess.rs: GlobalAsmBlock::process_line, finish and  *)
(* parse_source) and the object merger (src/rust/src/postprocess.rs:      *)
(* fixup_objfile).                                                        *)
(***************************************************************************)
EXTENDS Integers, Sequences, FiniteSets, TLC

VARIABLES
    opts,          \* GlobalState options (min_instr_count, skip_instr_count, ...)
    gstate,        \* GlobalState counters (make_name, next_late_rodata_hex)
    blk,           \* the GlobalAsmBlock being filled
    perr,          \* "none", or the error process_line / finish returned
    fin,           \* result of GlobalAsmBlock::finish, NoFin before it ran
    line_words,    \* per processed block line: growth of the .text size in words
    last_line,     \* the last line handed to process_line, and the block before it
    pc,            \* position of the driver
    \* parse_source
    output_lines,  \* the output lines, each a sequence of tokens
    in_block,      \* global_asm is Some
    start_index,   \* the index global_asm carries
    line_no,       \* number of source lines read
    asm_functions, \* the Functions collected
    is_early_include, \* the previous line was #pragma asmproc recurse
    roles,         \* per source line read: what parse_source took it for
    blocks,        \* per Function: the source lines of its block
    \* fixup_objfile
    disk,          \* the object file at objfile_path
    stub,          \* the object the compiler made of the stub, as first read
    asm_objfile,   \* the object the assembler makes of the generated source
    functions,     \* the Functions handed to fixup_objfile
    margs,         \* convert_statics, drop_mdebug_gptab, objfile_path
    merge,         \* the locals of fixup_objfile, objfile among them
    temp_dir       \* the TempDir of fixup_objfile: "none" before it is made,
                   \* "held" while the value lives, "released" once dropped

preVars == <<opts, gstate, blk, perr, fin, line_words, last_line, pc>>
parseVars == <<output_lines, in_block, start_index, line_no, asm_functions,
               is_early_include, roles, blocks>>
mergeVars == <<disk, stub, asm_objfile, functions, margs, merge, temp_dir>>

(***************************************************************************)
(* Bounds of the model                                                     *)
(***************************************************************************)
MaxLines == 4
MaxDirectives == 3
MaxSrcLines == 5
MaxSectionSyms == 2
MaxTextWords == 4
MaxStubRelocs == 2
MaxNewSyms == 2
MaxLateLines == 3
MaxMdSyms == 4

(***************************************************************************)
(* Program constants                                                       *)
(***************************************************************************)
MAX_FN_SIZE == 100

Sections == {"Text", "Data", "Rodata", "LateRodata", "Bss"}

\* Option<String>::None for a temp symbol name
NoName == ""
NoFin == [status |-> "none"]

(***************************************************************************)
(* Small helpers                                                           *)
(***************************************************************************)
Repeat(x, n) == IF n <= 0 THEN <<>> ELSE [i \in 1..n |-> x]

RECURSIVE SumSeq(_)
SumSeq(s) == IF s = <<>> THEN 0 ELSE Head(s) + SumSeq(Tail(s))

Divisible(a, n) == (a \div n) * n = a

(***************************************************************************)
(* GlobalAsmBlock                                                          *)
(***************************************************************************)
NewBlock ==
    [ cur_section |-> "Text",
      asm_conts |-> <<>>,
      late_rodata_asm_conts |-> <<>>,
      late_rodata_alignment |-> 0,
      late_rodata_alignment_from_context |-> FALSE,
      text_glabels |-> 0,
      fn_section_sizes |-> [s \in Sections |-> 0],
      fn_ins_inds |-> <<>>,
      glued |-> FALSE,
      num_lines |-> 0,
      err |-> "none" ]

\* align(n): round the current section's size up to a multiple of n
RECURSIVE AlignUp(_, _)
AlignUp(size, n) == IF size % n # 0 THEN AlignUp(size + 1, n) ELSE size

align(b, n) ==
    [b EXCEPT !.fn_section_sizes[b.cur_section] = AlignUp(@, n)]

\* add_sized recording the instruction index against the following line
add_sized_next_line(b, size) ==
    IF b.cur_section \in {"Text", "LateRodata"} /\ ~Divisible(size, 4)
    THEN [b EXCEPT !.err = "size must be a multiple of 4"]
    ELSE IF size < 0
    THEN [b EXCEPT !.err = "size cannot be negative"]
    ELSE LET b1 == [b EXCEPT !.fn_section_sizes[b.cur_section] = @ + size]
         IN IF b.cur_section = "Text"
            THEN IF b1.text_glabels = 0
                 THEN [b1 EXCEPT !.err = ".text block without an initial glabel"]
                 ELSE [b1 EXCEPT !.fn_ins_inds =
                                   Append(@, <<b1.num_lines, size \div 4>>)]
            ELSE b1

\* add_sized without the multiple-of-4 check
add_sized_unchecked(b, size) ==
    IF size < 0
    THEN [b EXCEPT !.err = "size cannot be negative"]
    ELSE LET b1 == [b EXCEPT !.fn_section_sizes[b.cur_section] = @ + size]
         IN IF b.cur_section = "Text"
            THEN IF b1.text_glabels = 0
                 THEN [b1 EXCEPT !.err = ".text block without an initial glabel"]
                 ELSE [b1 EXCEPT !.fn_ins_inds =
                                   Append(@, <<b1.num_lines - 1, size \div 4>>)]
            ELSE b1

\* add_sized(size, line)
add_sized(b, size) ==
    IF b.cur_section \in {"Text", "LateRodata"} /\ ~Divisible(size, 4)
    THEN [b EXCEPT !.err = "size must be a multiple of 4"]
    ELSE IF size < 0
    THEN [b EXCEPT !.err = "size cannot be negative"]
    ELSE LET b1 == [b EXCEPT !.fn_section_sizes[b.cur_section] = @ + size]
         IN IF b.cur_section = "Text"
            THEN IF b1.text_glabels = 0
                 THEN [b1 EXCEPT !.err = ".text block without an initial glabel"]
                 ELSE [b1 EXCEPT !.fn_ins_inds =
                                   Append(@, <<b1.num_lines - 1, size \div 4>>)]
            ELSE b1

\* a .double that infers the alignment anew each time
DoubleDirective_Reinfer(b, k) ==
    LET b1 == align(b, 4)
    IN IF b1.cur_section = "LateRodata"
       THEN LET align8 == b1.fn_section_sizes[b1.cur_section] % 8
            IN <<add_sized([b1 EXCEPT !.late_rodata_alignment = 8 - align8,
                                      !.late_rodata_alignment_from_context = TRUE],
                           8 * k), TRUE>>
       ELSE <<b1, FALSE>>
\* the .double branch of process_line; yields <<block, emitting_double>>
DoubleDirective(b, k) ==
    LET b1 == align(b, 4)
    IN IF b1.cur_section = "LateRodata"
       THEN LET align8 == b1.fn_section_sizes[b1.cur_section] % 8
                b2 == IF b1.late_rodata_alignment = 0
                      THEN [b1 EXCEPT !.late_rodata_alignment = 8 - align8,
                                      !.late_rodata_alignment_from_context = TRUE]
                      ELSE IF b1.late_rodata_alignment # 8 - align8
                      THEN IF b1.late_rodata_alignment_from_context
                           THEN [b1 EXCEPT !.err = "two .double with different start addresses mod 8"]
                           ELSE [b1 EXCEPT !.err = ".double at address that is not 0 mod 8"]
                      ELSE b1
            IN IF b2.err # "none" THEN <<b2, FALSE>>
               ELSE <<add_sized(b2, 8 * k), TRUE>>
       ELSE <<b1, FALSE>>

\* .late_rodata_alignment that overrides an alignment recorded before
LateRodataAlignmentDirective_Overwrite(b, value) ==
    IF b.cur_section # "LateRodata"
    THEN [b EXCEPT !.err = ".late_rodata_alignment must occur within .late_rodata section"]
    ELSE IF value # 4 /\ value # 8
    THEN [b EXCEPT !.err = ".late_rodata_alignment argument must be 4 or 8"]
    ELSE [b EXCEPT !.late_rodata_alignment = value]

\* the .late_rodata_alignment branch of process_line
LateRodataAlignmentDirective(b, value) ==
    IF b.cur_section # "LateRodata"
    THEN [b EXCEPT !.err = ".late_rodata_alignment must occur within .late_rodata section"]
    ELSE IF value # 4 /\ value # 8
    THEN [b EXCEPT !.err = ".late_rodata_alignment argument must be 4 or 8"]
    ELSE IF b.late_rodata_alignment # 0 /\ b.late_rodata_alignment # value
    THEN [b EXCEPT !.err = ".late_rodata_alignment conflicts with earlier .double"]
    ELSE [b EXCEPT !.late_rodata_alignment = value]

\* A block line after comment / string / label stripping:
\*   d: the directive class, n: its operand count or numeric argument,
\*   s: the section a section directive names ("?" for an unknown one),
\*   glue: the raw line ends with a backslash.
\* The directive dispatch of process_line; yields
\*   <<block, changed_section, emitting_double>>
Dispatch(b, l) ==
    CASE l.d = "empty" -> <<b, FALSE, FALSE>>
      [] l.d = "glabel" ->
           <<IF b.cur_section = "Text"
             THEN [b EXCEPT !.text_glabels = @ + 1] ELSE b, FALSE, FALSE>>
      [] l.d = "label" -> <<b, FALSE, FALSE>>
      [] l.d = "section" ->
           IF l.s \in Sections
           THEN <<[b EXCEPT !.cur_section = l.s], TRUE, FALSE>>
           ELSE <<[b EXCEPT !.err = "Unknown section"], FALSE, FALSE>>
      [] l.d = "late_rodata_alignment" ->
           LET b1 == LateRodataAlignmentDirective(b, l.n)
           IN <<b1, b1.err = "none", FALSE>>
      [] l.d = "incbin" -> <<add_sized(b, l.n), FALSE, FALSE>>
      [] l.d = "word" -> <<add_sized(align(b, 4), 4 * l.n), FALSE, FALSE>>
      [] l.d = "double" ->
           LET r == DoubleDirective(b, l.n) IN <<r[1], FALSE, r[2]>>
      [] l.d = "space" -> <<add_sized(b, l.n), FALSE, FALSE>>
      [] l.d = "balign" ->
           IF l.n # 4 THEN <<[b EXCEPT !.err = "only .balign 4 is supported"], FALSE, FALSE>>
           ELSE <<align(b, 4), FALSE, FALSE>>
      [] l.d = "align" ->
           IF l.n # 2 THEN <<[b EXCEPT !.err = "only .align 2 is supported"], FALSE, FALSE>>
           ELSE <<align(b, 4), FALSE, FALSE>>
      [] l.d = "ascii" -> <<add_sized(b, l.n), FALSE, FALSE>>
      [] l.d = "byte" -> <<add_sized(b, l.n), FALSE, FALSE>>
      [] l.d = "half" -> <<add_sized(align(b, 2), 2 * l.n), FALSE, FALSE>>
      [] l.d = "size" -> <<b, FALSE, FALSE>>
      [] l.d = "otherdir" ->
           <<[b EXCEPT !.err = "asm directive not supported"], FALSE, FALSE>>
      [] OTHER -> \* an instruction or macro call
           IF b.cur_section # "Text"
           THEN <<[b EXCEPT !.err = "instruction or macro call in non-.text section"], FALSE, FALSE>>
           ELSE <<add_sized(b, 4), FALSE, FALSE>>

\* process_line(line, output_enc)
process_line(b, l) ==
    LET b0 == [b EXCEPT !.num_lines = @ + 1]
    IN IF l.glue
       THEN [b0 EXCEPT !.glued = TRUE]
       ELSE LET r == Dispatch([b0 EXCEPT !.glued = FALSE], l)
                b1 == r[1]
            IN IF b1.err # "none" THEN b1
               ELSE IF b1.cur_section = "LateRodata"
               THEN IF ~r[2]
                    THEN [b1 EXCEPT !.late_rodata_asm_conts =
                            @ \o (IF r[3] THEN <<".align 0", l.d, ".align 2">> ELSE <<l.d>>)]
                    ELSE b1
               ELSE [b1 EXCEPT !.asm_conts = Append(@, l.d)]

(***************************************************************************)
(* GlobalState (crate root): the unique-name counter and the dummy-float   *)
(* generator                                                               *)
(***************************************************************************)
NewGlobalState == [namectr |-> 0, hexctr |-> 0]

\* make_name(cat): a name unique in the run, with the reserved prefix
make_name(g, cat) == "_asmpp_" \o cat \o ToString(g.namectr + 1)

\* next_late_rodata_hex(): the next value of a non-repeating stream
next_late_rodata_hex(g) == g.hexctr + 1

(***************************************************************************)
(* GlobalAsmBlock::finish                                                  *)
(***************************************************************************)
\* (jtbl_size, jtbl_min_rodata_size)
JtblParams(o) ==
    IF o.pascal
    THEN (IF o.mips1 THEN <<9, 2>> ELSE <<8, 2>>)
    ELSE (IF o.mips1 THEN <<11, 5>> ELSE <<9, 5>>)

LateRodataStart ==
    [out |-> <<>>, dummies |-> <<>>, skip_next |-> FALSE, needs_double |-> FALSE,
     extra_mips1_nop |-> FALSE, jtbl_rodata_size |-> 0, hexctr |-> 0,
     panic |-> FALSE, jtbl_tests |-> <<>>]

\* every word of late rodata emitted as a dummy float
LateRodataWord_AlwaysFloat(b, o, size, i, st) ==
    [st EXCEPT !.dummies = Append(@, st.hexctr + 1),
               !.hexctr = st.hexctr + 1,
               !.out = @ \o <<"float", "", "">>,
               !.extra_mips1_nop = TRUE]

\* a dummy double that records the dummy bytes of its first word only
LateRodataWord_HalfDouble(b, o, size, i, st) ==
    LET h1 == st.hexctr + 1
    IN IF b.late_rodata_alignment = 4 * (((i + 1) % 2) + 1) /\ i + 1 < size
       THEN [st EXCEPT !.dummies = @ \o <<h1>>,
                       !.hexctr = h1 + 1,
                       !.out = @ \o <<"double">>
                                 \o (IF o.mips1 THEN <<"", "">> ELSE <<>>)
                                 \o <<"", "">>,
                       !.skip_next = TRUE,
                       !.needs_double = FALSE,
                       !.extra_mips1_nop = FALSE]
       ELSE [st EXCEPT !.dummies = Append(@, h1),
                       !.hexctr = h1,
                       !.out = @ \o <<"float", "", "">>,
                       !.extra_mips1_nop = TRUE]
\* One word of late rodata emitted as a dummy float, or two as a dummy double
LateRodataWord(b, o, size, i, st) ==
    LET h1 == st.hexctr + 1
    IN IF b.late_rodata_alignment = 4 * (((i + 1) % 2) + 1) /\ i + 1 < size
       THEN [st EXCEPT !.dummies = @ \o <<h1, h1 + 1>>,
                       !.hexctr = h1 + 1,
                       !.out = @ \o <<"double">>
                                 \o (IF o.mips1 THEN <<"", "">> ELSE <<>>)
                                 \o <<"", "">>,
                       !.skip_next = TRUE,
                       !.needs_double = FALSE,
                       !.extra_mips1_nop = FALSE]
       ELSE [st EXCEPT !.dummies = Append(@, h1),
                       !.hexctr = h1,
                       !.out = @ \o <<"float", "", "">>,
                       !.extra_mips1_nop = TRUE]

\* The loop `for i in 0..size` over the words of late rodata.  wrap: the
\* build wraps on unsigned overflow (release) instead of aborting (debug).
RECURSIVE LateRodataLoop(_, _, _, _, _)
LateRodataLoop(b, o, wrap, i, st) ==
    LET size == b.fn_section_sizes["LateRodata"] \div 4
        num_instr == b.fn_section_sizes["Text"] \div 4
        jp == JtblParams(o)
        pre == /\ ~st.needs_double
               /\ o.use_jtbl_for_rodata
               /\ i >= 1
               /\ size - i >= jp[2]
        under == num_instr < Len(st.out)
        st1 == IF pre
               THEN [st EXCEPT !.jtbl_tests = Append(@, <<num_instr, Len(st.out)>>)]
               ELSE st
    IN IF i >= size THEN st
       ELSE IF st.skip_next
       THEN LateRodataLoop(b, o, wrap, i + 1, [st EXCEPT !.skip_next = FALSE])
       ELSE IF pre /\ under /\ ~wrap
       THEN [st1 EXCEPT !.panic = TRUE]
       ELSE IF pre /\ (under \/ num_instr - Len(st.out) >= jp[1] + 1)
       THEN [st1 EXCEPT !.out = @ \o <<"jtbl">> \o Repeat("", jp[1] - 1),
                        !.jtbl_rodata_size = (size - i) * 4,
                        !.extra_mips1_nop = (i # 2)]
       ELSE LET next == CHOOSE r \in {LateRodataWord(b, o, size, i, st1)} : TRUE
            IN LateRodataLoop(b, o, wrap, i + 1, next)

\* the trailing slot of -mips1 (lines 487-489)
LateRodataEnd(o, st) ==
    IF ~st.panic /\ o.mips1 /\ st.extra_mips1_nop
    THEN [st EXCEPT !.out = Append(@, "")]
    ELSE st

\* The late-rodata part of finish (lines 394-490)
LateRodata(b, o, g, wrap) ==
    IF b.fn_section_sizes["LateRodata"] > 0
    THEN LateRodataEnd(o, LateRodataLoop(b, o, wrap, 0,
                     [LateRodataStart EXCEPT
                         !.needs_double = (b.late_rodata_alignment # 0),
                         !.hexctr = g.hexctr]))
    ELSE [LateRodataStart EXCEPT !.hexctr = g.hexctr]

\* fn_ins_inds flattened: one entry (the line) per instruction slot
RECURSIVE SlotLines(_)
SlotLines(inds) ==
    IF inds = <<>> THEN <<>>
    ELSE Repeat(Head(inds)[1], Head(inds)[2]) \o SlotLines(Tail(inds))

AppendTo(src, line, toks) ==
    IF line + 1 \in DOMAIN src
    THEN [src EXCEPT ![line + 1] = @ \o toks]
    ELSE src

\* a new function that goes on without skipping
SlotSplit_KeepEmitting(b, o, line, st) ==
    IF /\ st.fn_emitted > MAX_FN_SIZE
       /\ (b.fn_section_sizes["Text"] \div 4) - st.tot_emitted > o.min_instr_count
       /\ (st.stack = <<>> \/ Head(st.stack) # "")
    THEN [st EXCEPT !.fn_emitted = 0,
                    !.namectr = @ + 1,
                    !.src = AppendTo(@, line, <<"epilogue", "prologue">>),
                    !.splits = Append(@, st.tot_emitted)]
    ELSE st

\* The start of a new synthesized function inside the inner loop of finish
\* (lines 512-531)
SlotSplit(b, o, line, st) ==
    IF /\ st.fn_emitted > MAX_FN_SIZE
       /\ (b.fn_section_sizes["Text"] \div 4) - st.tot_emitted > o.min_instr_count
       /\ (st.stack = <<>> \/ Head(st.stack) # "")
    THEN [st EXCEPT !.fn_emitted = 0,
                    !.fn_skipped = 0,
                    !.skipping = TRUE,
                    !.namectr = @ + 1,
                    !.src = AppendTo(@, line, <<"epilogue", "prologue">>),
                    !.splits = Append(@, st.tot_emitted)]
    ELSE st

\* The statement of one slot (lines 533-555)
SlotEmit(o, line, s1) ==
    IF /\ s1.skipping
       /\ s1.fn_skipped < o.skip_instr_count
            + (IF s1.stack # <<>> THEN o.prelude_if_late_rodata ELSE 0)
    THEN [s1 EXCEPT !.fn_skipped = @ + 1,
                    !.tot_skipped = @ + 1,
                    !.slots = Append(@, <<line, "skip">>),
                    !.tot_emitted = @ + 1,
                    !.fn_emitted = @ + 1]
    ELSE IF s1.stack # <<>>
    THEN [s1 EXCEPT !.skipping = FALSE,
                    !.src = AppendTo(@, line,
                              IF Head(s1.stack) = "" THEN <<>>
                              ELSE <<Head(s1.stack)>>),
                    !.stack = Tail(@),
                    !.slots = Append(@, <<line, Head(s1.stack)>>),
                    !.tot_emitted = @ + 1,
                    !.fn_emitted = @ + 1]
    ELSE [s1 EXCEPT !.skipping = FALSE,
                    !.src = AppendTo(@, line, <<"dummy">>),
                    !.slots = Append(@, <<line, "dummy">>),
                    !.tot_emitted = @ + 1,
                    !.fn_emitted = @ + 1]

\* One iteration of the inner loop of finish (lines 511-556)
Slot(b, o, line, st) == SlotEmit(o, line, SlotSplit(b, o, line, st))

\* the inner loop over the slots in order: the first half of them, then
\* the rest from the state the first half left (the loop itself never
\* fails, so err stays "none" throughout)
RECURSIVE SlotLoop(_, _, _, _)
SlotLoop(b, o, lines, st) ==
    IF lines = <<>> THEN st
    ELSE IF Len(lines) = 1 THEN Slot(b, o, Head(lines), st)
    ELSE LET half == Len(lines) \div 2
             next == SlotLoop(b, o, SubSeq(lines, 1, half), st)
         IN IF next.err = "none"
            THEN SlotLoop(b, o, SubSeq(lines, half + 1, Len(lines)), next)
            ELSE next

\* a filler object / temp symbol is made for a section iff its size is > 0
HasSection_gt4(sizes, s) == sizes[s] > 4
HasSection_Always(sizes, s) == sizes[s] >= 0
HasSection(sizes, s) == sizes[s] > 0

\* The temp symbol of a section of the Function record
Sym(name, size) == [name |-> name, size |-> size]

\* The text part of finish (lines 492-569), given the late-rodata part
FinishText(b, o, g, lr) ==
    IF lr.panic
    THEN [err |-> "panic: attempt to subtract with overflow"]
    ELSE IF ~(HasSection(b.fn_section_sizes, "Text") \/ lr.out # <<>>)
    THEN [err |-> "none", name |-> NoName, namectr |-> g.namectr,
          src |-> [i \in 1..(b.num_lines + 1) |-> <<>>],
          slots |-> <<>>, splits |-> <<>>, stack |-> <<>>]
    ELSE IF b.fn_section_sizes["Text"] \div 4 < o.min_instr_count
    THEN [err |-> "too short .text block"]
    ELSE SlotLoop(b, o, SlotLines(b.fn_ins_inds),
             [src |-> [i \in 1..(b.num_lines + 1) |->
                         IF i = b.num_lines + 1 THEN <<"epilogue">>
                         ELSE IF i = 1 THEN <<"prologue">> ELSE <<>>],
              tot_emitted |-> 0, tot_skipped |-> 0,
              fn_emitted |-> 0, fn_skipped |-> 0, skipping |-> TRUE,
              stack |-> lr.out, slots |-> <<>>, splits |-> <<>>,
              namectr |-> g.namectr + 1,
              name |-> make_name(g, "func"), err |-> "none"])

\* One filler declaration of finish (lines 571-623), appended to the last
\* line of the block; acc: [err, src, namectr, names]
Filler(b, o, acc, s, cat, decl) ==
    IF acc.err # "none" \/ ~HasSection(b.fn_section_sizes, s) THEN acc
    ELSE IF o.pascal /\ s \in {"Rodata", "Bss"}
    THEN [acc EXCEPT !.err = IF s = "Rodata"
                             THEN ".rodata isn't supported with Pascal for now"
                             ELSE ".bss isn't supported with Pascal for now"]
    ELSE [acc EXCEPT !.src = AppendTo(@, b.num_lines, <<decl>>),
                     !.namectr = @ + 1,
                     !.names[s] = make_name([namectr |-> acc.namectr], cat)]

\* finish that lets any amount of late rodata through
FinishFillers_AnyRatio(b, o, lr, t) ==
    IF t.err # "none" THEN [err |-> t.err]
    ELSE Filler(b, o,
           Filler(b, o,
             Filler(b, o,
               [err |-> "none", src |-> t.src, namectr |-> t.namectr,
                slots |-> t.slots, splits |-> t.splits,
                names |-> [s \in {"Text", "Data", "Rodata", "Bss"} |->
                             IF s = "Text" THEN t.name ELSE NoName]],
               "Rodata", "rodata", "rodata_decl"),
             "Data", "data", "data_decl"),
           "Bss", "bss", "bss_decl")

\* finish, given the late-rodata part lr and the text part t
FinishFillers(b, o, lr, t) ==
    IF t.err # "none" THEN [err |-> t.err]
    ELSE IF t.stack # <<>>
    THEN [err |-> "late rodata to text ratio is too high"]
    ELSE Filler(b, o,
           Filler(b, o,
             Filler(b, o,
               [err |-> "none", src |-> t.src, namectr |-> t.namectr,
                slots |-> t.slots, splits |-> t.splits,
                names |-> [s \in {"Text", "Data", "Rodata", "Bss"} |->
                             IF s = "Text" THEN t.name ELSE NoName]],
               "Rodata", "rodata", "rodata_decl"),
             "Data", "data", "data_decl"),
           "Bss", "bss", "bss_decl")

\* the value finish returns
FinishResult(b, lr, r) ==
    IF r.err # "none"
    THEN [status |-> "err", err |-> r.err, late |-> lr.out,
          jtbl_tests |-> lr.jtbl_tests]
    ELSE [status |-> "ok", err |-> "none",
          src |-> r.src,
          slots |-> r.slots,
          splits |-> r.splits,
          late |-> lr.out,
          jtbl_tests |-> lr.jtbl_tests,
          g |-> [namectr |-> r.namectr, hexctr |-> lr.hexctr],
          fn |-> [ text_glabels |-> b.text_glabels,
                   asm_conts |-> b.asm_conts,
                   late_rodata_dummy_bytes |-> lr.dummies,
                   jtbl_rodata_size |-> lr.jtbl_rodata_size,
                   late_rodata_asm_conts |-> b.late_rodata_asm_conts,
                   data |-> [s \in {"Text", "Data", "Rodata", "Bss"} |->
                               Sym(r.names[s], b.fn_section_sizes[s])] ] ]

FinishWith(b, o, g, lr) ==
    FinishResult(b, lr, FinishFillers(b, o, lr, FinishText(b, o, g, lr)))

\* finish(state): [status, err, src, fn, g (the GlobalState afterwards), ...]
finish(b, o, g, wrap) == FinishWith(b, o, g, LateRodata(b, o, g, wrap))

(***************************************************************************)
(* parse_source: the options derived from the command line (lines 669-716) *)
(***************************************************************************)
Args(opt, g3, framepointer, kpic, mips1, pascal) ==
    [opt |-> opt, g3 |-> g3, framepointer |-> framepointer, kpic |-> kpic,
     mips1 |-> mips1, pascal |-> pascal]

\* the counts, were -O1 and -O2 to need one instruction and skip none
InstrCounts_OneInstr(a) ==
    CASE a.opt = "O0" /\ ~a.g3 -> IF a.framepointer THEN <<8, 8>> ELSE <<4, 4>>
      [] a.opt \in {"O1", "O2"} /\ ~a.g3 ->
                                    IF a.framepointer THEN <<6, 5>> ELSE <<1, 0>>
      [] a.opt = "G" /\ ~a.g3 -> IF a.framepointer THEN <<7, 7>> ELSE <<4, 4>>
      [] a.opt = "O2" /\ a.g3 -> IF a.framepointer THEN <<4, 4>> ELSE <<2, 2>>
      [] OTHER -> <<>>

\* (min_instr_count, skip_instr_count) before the kpic adjustment; <<>> when
\* the combination is rejected
InstrCounts(a) ==
    CASE a.opt = "O0" /\ ~a.g3 -> IF a.framepointer THEN <<8, 8>> ELSE <<4, 4>>
      [] a.opt \in {"O1", "O2"} /\ ~a.g3 ->
                                    IF a.framepointer THEN <<6, 5>> ELSE <<2, 1>>
      [] a.opt = "G" /\ ~a.g3 -> IF a.framepointer THEN <<7, 7>> ELSE <<4, 4>>
      [] a.opt = "O2" /\ a.g3 -> IF a.framepointer THEN <<4, 4>> ELSE <<2, 2>>
      [] OTHER -> <<>>

Options(a) ==
    LET c == InstrCounts(a)
        optimized == a.opt = "O2" \/ a.g3
        bump == IF a.kpic /\ ~optimized THEN 3 ELSE 0
    IN [ min_instr_count |-> c[1] + bump,
         skip_instr_count |-> c[2] + bump,
         use_jtbl_for_rodata |-> optimized /\ ~a.framepointer /\ ~a.kpic,
         prelude_if_late_rodata |-> IF a.kpic /\ optimized THEN 3 ELSE 0,
         mips1 |-> a.mips1,
         pascal |-> a.pascal ]

\* The command lines the model runs under
ArgChoices ==
    { Args("O2", FALSE, FALSE, FALSE, FALSE, FALSE),
      Args("O2", TRUE, FALSE, FALSE, FALSE, FALSE),
      Args("O1", FALSE, TRUE, FALSE, FALSE, FALSE),
      Args("O2", FALSE, FALSE, TRUE, FALSE, FALSE),
      Args("O2", FALSE, FALSE, FALSE, TRUE, FALSE),
      Args("O2", FALSE, FALSE, FALSE, FALSE, TRUE),
      Args("O0", FALSE, FALSE, TRUE, FALSE, FALSE) }

(***************************************************************************)
(* The lines a block is fed                                                *)
(***************************************************************************)
L(d, n) == [d |-> d, n |-> n, s |-> "", glue |-> FALSE]
Sec(s) == [d |-> "section", n |-> 0, s |-> s, glue |-> FALSE]
Glue == [d |-> "instr", n |-> 0, s |-> "", glue |-> TRUE]

\* every directive class of process_line, with operands that hit and miss
\* the alignment and sign checks
AllLines ==
    { L("glabel", 0), L("label", 0), L("instr", 0), L("size", 0),
      L("otherdir", 0), Glue,
      Sec("Text"), Sec("Data"), Sec("Rodata"), Sec("LateRodata"), Sec("Bss"),
      Sec("?"),
      L("late_rodata_alignment", 4), L("late_rodata_alignment", 8),
      L("late_rodata_alignment", 2),
      L("incbin", 4), L("word", 1), L("word", 2), L("double", 1),
      L("double", 2), L("space", 4), L("space", 3), L("space", 0 - 4),
      L("balign", 4), L("balign", 8), L("align", 2), L("align", 3),
      L("ascii", 3), L("byte", 1), L("byte", 4), L("half", 1), L("half", 2) }

\* the lines of blocks that finish is run on
BlockLines ==
    { L("glabel", 0), L("instr", 0), L("space", 16), L("space", 40),
      Sec("Text"), Sec("Data"), Sec("Rodata"), Sec("LateRodata"), Sec("Bss"),
      L("word", 1), L("word", 6), L("double", 1), L("byte", 3), L("byte", 5) }

(***************************************************************************)
(* The block driver: a block is fed lines, then finished                   *)
(***************************************************************************)
PreInit ==
    /\ opts \in {Options(a) : a \in ArgChoices}
    /\ gstate = NewGlobalState
    /\ blk = NewBlock
    /\ perr = "none"
    /\ fin = NoFin
    /\ line_words = <<>>
    /\ last_line = <<>>

Feed(l) ==
    \E b \in {process_line(blk, l)} :
       /\ blk' = b
       /\ perr' = b.err
       /\ line_words' = Append(line_words,
             (b.fn_section_sizes["Text"] - blk.fn_section_sizes["Text"]) \div 4)
       /\ last_line' = <<l, blk>>
       /\ pc' = IF b.err = "none" THEN "lines" ELSE "failed"
       /\ UNCHANGED <<opts, gstate, fin>>
       /\ UNCHANGED <<parseVars, mergeVars>>

\* process_line on a block line
BlockLine ==
    /\ pc = "lines"
    /\ blk.num_lines < MaxLines
    /\ \E l \in BlockLines : Feed(l)

\* process_line on any directive
DirectiveLine ==
    /\ pc = "lines"
    /\ blk.num_lines < MaxDirectives
    /\ \E l \in AllLines : Feed(l)

\* finish on the block; wrap: the build wraps on unsigned overflow
BlockFinish ==
    /\ pc = "lines"
    /\ \E wrap \in BOOLEAN :
         \E r \in {finish(blk, opts, gstate, wrap)} :
            /\ fin' = r
            /\ perr' = r.err
            /\ pc' = IF r.status = "ok" THEN "finished" ELSE "failed"
            /\ gstate' = IF r.status = "ok" THEN r.g ELSE gstate
    /\ UNCHANGED <<opts, blk, line_words, last_line>>
    /\ UNCHANGED <<parseVars, mergeVars>>


(***************************************************************************)
(* parse_source: the loop over the source lines (lines 718-851)            *)
(***************************************************************************)
\* the .s files the one-line forms name; <<>> stands for a missing file
FileText == <<L("glabel", 0), L("instr", 0), L("instr", 0)>>
FileRodata == <<L("word", 2)>>
NoFile == <<>>

Code == [k |-> "c"]
Open == [k |-> "open"]
Close == [k |-> "close"]
Asm(l) == [k |-> "asm", l |-> l]
OneLine(form, file) == [k |-> "oneline", form |-> form, file |-> file]
PragmaRecurse == [k |-> "pragma"]
Include == [k |-> "include"]

SrcLines ==
    { Code, Open, Close, Asm(L("glabel", 0)), Asm(L("space", 16)),
      OneLine("GLOBAL_ASM", FileText), OneLine("INCLUDE_RODATA", FileRodata),
      OneLine("INCLUDE_ASM", NoFile), PragmaRecurse, Include }

\* what process_line takes a source line for, inside a block
AsmClass(sl) ==
    CASE sl.k = "asm" -> sl.l
      [] sl.k \in {"pragma", "include"} -> L("empty", 0)  \* `#...` is a comment
      [] OTHER -> L("instr", 0)

RECURSIVE ProcessLines(_, _)
ProcessLines(b, ls) ==
    IF ls = <<>> \/ b.err # "none" THEN b
    ELSE LET next == CHOOSE r \in {process_line(b, Head(ls))} : TRUE
         IN ProcessLines(next, Tail(ls))

RECURSIVE Flatten(_)
Flatten(ss) == IF ss = <<>> THEN <<>> ELSE Head(ss) \o Flatten(Tail(ss))

\* the tokens of Function number f
Tag(toks, f) == [i \in DOMAIN toks |-> <<toks[i], f>>]

\* the index a block opened now will write its first line to (line 753),
\* counted from 1
StartIndex_AtOpenLine(ol) == Len(ol)
StartIndex(ol) == Len(ol) + 1

\* the source line of the GLOBAL_ASM( that opened the current block
LastOpen(rs) ==
    CHOOSE k \in DOMAIN rs :
       rs[k] = "open" /\ \A j \in DOMAIN rs : j > k => rs[j] # "open"

ParseInit ==
    /\ output_lines = << <<<<"#line", 1>>>> >>
    /\ in_block = FALSE
    /\ start_index = 0
    /\ line_no = 0
    /\ asm_functions = <<>>
    /\ is_early_include = FALSE
    /\ roles = <<>>
    /\ blocks = <<>>

ParseFail(e) ==
    /\ pc' = "failed"
    /\ perr' = e

\* a line read while a block is open (lines 739-749)
InBlockLine(sl, ol) ==
    IF sl.k = "close"
    THEN \E wrap \in BOOLEAN :
           \E r \in {finish(blk, opts, gstate, wrap)}, f \in {Len(asm_functions) + 1} :
              /\ fin' = r
              /\ roles' = Append(roles, "close")
              /\ IF r.status # "ok"
                 THEN /\ ParseFail(r.err)
                      /\ output_lines' = ol
                      /\ UNCHANGED <<gstate, asm_functions, in_block, blocks, blk>>
                 ELSE IF start_index + Len(r.src) - 1 > Len(ol)
                 THEN /\ ParseFail("panic: index out of bounds")
                      /\ output_lines' = ol
                      /\ UNCHANGED <<gstate, asm_functions, in_block, blocks, blk>>
                 ELSE /\ output_lines' =
                           [i \in DOMAIN ol |->
                              IF i \in start_index..(start_index + Len(r.src) - 1)
                              THEN Tag(r.src[i - start_index + 1], f)
                              ELSE ol[i]]
                      /\ asm_functions' = Append(asm_functions, r.fn)
                      /\ blocks' = Append(blocks,
                                     [first |-> LastOpen(roles) + 1,
                                      last |-> line_no + 1])
                      /\ gstate' = r.g
                      /\ in_block' = FALSE
                      /\ UNCHANGED <<pc, perr, blk>>
              /\ UNCHANGED <<start_index, is_early_include>>
    ELSE \E b \in {process_line(blk, AsmClass(sl))} :
            /\ blk' = b
            /\ roles' = Append(roles, "asm")
            /\ output_lines' = ol
            /\ IF b.err # "none" THEN ParseFail(b.err) ELSE UNCHANGED <<pc, perr>>
            /\ UNCHANGED <<fin, gstate, asm_functions, in_block, blocks,
                           start_index, is_early_include>>

\* the lines a one-line form puts before the file's (lines 770-774)
Prologue(form) == IF form = "INCLUDE_RODATA" THEN <<Sec("Rodata")>> ELSE <<>>

\* GLOBAL_ASM("path"), INCLUDE_ASM(...), INCLUDE_RODATA(...) (lines 755-805)
OneLineForm(sl, ol) ==
    \E b \in {ProcessLines(ProcessLines(NewBlock, Prologue(sl.form)), sl.file)},
       f \in {Len(asm_functions) + 1} :
       /\ roles' = Append(roles, "oneline")
       /\ IF sl.file = NoFile
          THEN /\ output_lines' = [ol EXCEPT ![Len(ol)] = <<<<"#include GLOBAL_ASM", 0>>>>]
               /\ UNCHANGED <<pc, perr, fin, gstate, asm_functions, blocks>>
          ELSE IF b.err # "none"
          THEN /\ ParseFail(b.err)
               /\ output_lines' = ol
               /\ UNCHANGED <<fin, gstate, asm_functions, blocks>>
          ELSE \E wrap \in BOOLEAN :
                 \E r \in {finish(b, opts, gstate, wrap)} :
                    /\ fin' = r
                    /\ IF r.status # "ok"
                       THEN /\ ParseFail(r.err)
                            /\ output_lines' = ol
                            /\ UNCHANGED <<gstate, asm_functions, blocks>>
                       ELSE /\ output_lines' =
                                 [ol EXCEPT ![Len(ol)] = Tag(Flatten(r.src), f)]
                            /\ asm_functions' = Append(asm_functions, r.fn)
                            /\ blocks' = Append(blocks,
                                    [first |-> line_no + 1, last |-> line_no + 1])
                            /\ gstate' = r.g
                            /\ UNCHANGED <<pc, perr>>
       /\ UNCHANGED <<blk, in_block, start_index, is_early_include>>

\* one iteration of the loop over the source lines
ReadLine ==
    /\ pc = "reading"
    /\ line_no < MaxSrcLines
    /\ \E sl \in SrcLines :
         \E ol \in {Append(output_lines, <<>>)} :
            /\ line_no' = line_no + 1
            /\ UNCHANGED <<opts, line_words, last_line>>
            /\ UNCHANGED mergeVars
            /\ IF in_block THEN InBlockLine(sl, ol)
               ELSE IF sl.k = "open"
               THEN /\ blk' = NewBlock
                    /\ in_block' = TRUE
                    /\ start_index' = StartIndex(ol)
                    /\ output_lines' = ol
                    /\ roles' = Append(roles, "open")
                    /\ UNCHANGED <<pc, perr, fin, gstate, asm_functions, blocks,
                                   is_early_include>>
               ELSE IF sl.k = "oneline"
               THEN OneLineForm(sl, ol)
               ELSE IF sl.k = "pragma"
               THEN /\ is_early_include' = TRUE
                    /\ output_lines' = ol
                    /\ roles' = Append(roles, "pragma")
                    /\ UNCHANGED <<pc, perr, fin, gstate, asm_functions, blocks,
                                   blk, in_block, start_index>>
               ELSE IF is_early_include
               THEN /\ is_early_include' = FALSE
                    /\ roles' = Append(roles, "include")
                    /\ IF sl.k # "include"
                       THEN /\ ParseFail("#pragma asmproc recurse must be followed by an #include")
                            /\ output_lines' = ol
                       ELSE /\ output_lines' =
                                 [ol EXCEPT ![Len(ol)] =
                                    << <<"nested output", line_no + 1>>,
                                       <<"#line", line_no + 2>> >>]
                            /\ UNCHANGED <<pc, perr>>
                    /\ UNCHANGED <<fin, gstate, asm_functions, blocks, blk,
                                   in_block, start_index>>
               ELSE /\ output_lines' = [ol EXCEPT ![Len(ol)] = <<<<"raw", line_no + 1>>>>]
                    /\ roles' = Append(roles, "code")
                    /\ UNCHANGED <<pc, perr, fin, gstate, asm_functions, blocks,
                                   blk, in_block, start_index, is_early_include>>

\* the source file ends: the output is assembled (lines 853-873)
EndOfFile ==
    /\ pc = "reading"
    /\ pc' = "done"
    /\ UNCHANGED <<opts, gstate, blk, perr, fin, line_words, last_line>>
    /\ UNCHANGED <<parseVars, mergeVars>>

(***************************************************************************)
(* postprocess.rs: ELF objects                                             *)
(***************************************************************************)
SHN_UNDEF == 0
SHN_ABS == 65521
STT_OBJECT == 1
STT_FUNC == 2
STB_LOCAL == 0
STB_GLOBAL == 1
STV_DEFAULT == 0
MIPS_DEBUG_ST_STATIC == 2
MIPS_DEBUG_ST_PROC == 6
MIPS_DEBUG_ST_BLOCK == 7
MIPS_DEBUG_ST_END == 8
MIPS_DEBUG_ST_FILE == 11
MIPS_DEBUG_ST_STATIC_PROC == 14
MIPS_DEBUG_ST_STRUCT == 26
MIPS_DEBUG_ST_UNION == 27
MIPS_DEBUG_ST_ENUM == 28

\* the OutputSection values, each written as its section name
OUTPUT_SECTIONS == <<".data", ".text", ".rodata", ".bss">>
INPUT_SECTION_NAMES == <<".data", ".text", ".rodata", ".bss", ".late_rodata">>

Range(s) == {s[i] : i \in DOMAIN s}

\* HashMap::insert
Put(m, k, v) == [x \in (DOMAIN m) \cup {k} |-> IF x = k THEN v ELSE m[x]]

\* struct Symbol.  st_name stands for the string its strtab offset
\* designates; name is the name the merge works with.
Symbol(name, shndx, value, bind, type) ==
    [name |-> name, st_name |-> name, st_value |-> value, st_size |-> 0,
     st_shndx |-> shndx, st_type |-> type, st_bind |-> bind,
     st_visibility |-> STV_DEFAULT]

\* struct Relocation.  from and ref are bookkeeping kept beside the entry,
\* not bytes of it: the object the entry was read from and the symbol it
\* named there.
Relocation(offset, sym_index, rel_type, from, ref) ==
    [r_offset |-> offset, sym_index |-> sym_index, rel_type |-> rel_type,
     from |-> from, ref |-> ref]

\* a relocation section: sh_type, the index sh_info of the section it
\* applies to, its parsed entries and its bytes (the entries to_bin wrote)
RelTable(name, sh_type, sh_info, entries) ==
    [name |-> name, sh_type |-> sh_type, sh_info |-> sh_info,
     relocations |-> entries, data |-> entries]

\* name.starts_with(b"_asmpp_")
starts_with_asmpp(name) == Len(name) >= 7 /\ SubSeq(name, 1, 7) = "_asmpp_"

\* ElfFile::find_section: the index of the first section of that name,
\* 0 for None
find_section(elf, name) ==
    IF \E i \in DOMAIN elf.sections : elf.sections[i] = name
    THEN CHOOSE i \in DOMAIN elf.sections :
            /\ elf.sections[i] = name
            /\ \A j \in 1..(i - 1) : elf.sections[j] # name
    ELSE 0

\* Section::find_symbol: the first entry of that name
find_symbol(entries, name) ==
    IF \E i \in DOMAIN entries : entries[i].name = name
    THEN LET i == CHOOSE i \in DOMAIN entries :
                     /\ entries[i].name = name
                     /\ \A j \in 1..(i - 1) : entries[j].name # name
         IN [found |-> TRUE, st_shndx |-> entries[i].st_shndx,
             st_value |-> entries[i].st_value]
    ELSE [found |-> FALSE, st_shndx |-> 0, st_value |-> 0]

\* Section::find_symbol_in_section: [ok, value]; "none" is None, "assert"
\* the failed assert_eq on the section index
find_symbol_in_section(entries, name, index) ==
    LET s == find_symbol(entries, name)
    IN IF ~s.found THEN [ok |-> "none", value |-> 0]
       ELSE IF s.st_shndx # index THEN [ok |-> "assert", value |-> 0]
       ELSE [ok |-> "some", value |-> s.st_value]

\* the tables in section.relocated_by, in section order
relocated_by(elf, index) ==
    SelectSeq([i \in DOMAIN elf.reltabs |-> i],
              LAMBDA i : elf.reltabs[i].sh_info = index)

\* the bytes of a section, empty for a section without any
section_data(elf, name) ==
    IF name \in DOMAIN elf.data THEN elf.data[name] ELSE <<>>

(***************************************************************************)
(* The object file: parsed (ElfFile::new) and written (ElfFile::write)     *)
(***************************************************************************)
\* Symbol::to_bin: the SymbolData record
to_bin(s) ==
    [st_name |-> s.st_name, st_value |-> s.st_value, st_size |-> s.st_size,
     st_info |-> <<s.st_bind, s.st_type>>, st_other |-> s.st_visibility,
     st_shndx |-> s.st_shndx]

\* Symbol::new: the name is looked up in the string table
Symbol_new(d) ==
    [name |-> d.st_name, st_name |-> d.st_name, st_value |-> d.st_value,
     st_size |-> d.st_size, st_shndx |-> d.st_shndx,
     st_type |-> d.st_info[2], st_bind |-> d.st_info[1],
     st_visibility |-> d.st_other % 4]

\* ElfFile::new over the bytes of a file
ElfFile_new(file) ==
    [sections |-> file.sections,
     data |-> file.data,
     symbol_entries |-> [i \in DOMAIN file.symtab |-> Symbol_new(file.symtab[i])],
     symtab_data |-> file.symtab,
     sh_info |-> file.sh_info,
     reltabs |-> [t \in DOMAIN file.reltabs |->
                    [name |-> file.reltabs[t].name,
                     sh_type |-> file.reltabs[t].sh_type,
                     sh_info |-> file.reltabs[t].sh_info,
                     relocations |-> file.reltabs[t].data,
                     data |-> file.reltabs[t].data]],
     mdebug |-> file.mdebug,
     little |-> file.little]

\* ElfFile::write: the bytes of each section
ElfFile_write(elf) ==
    [sections |-> elf.sections,
     data |-> elf.data,
     symtab |-> elf.symtab_data,
     sh_info |-> elf.sh_info,
     reltabs |-> [t \in DOMAIN elf.reltabs |->
                    [name |-> elf.reltabs[t].name,
                     sh_type |-> elf.reltabs[t].sh_type,
                     sh_info |-> elf.reltabs[t].sh_info,
                     data |-> elf.reltabs[t].data]],
     mdebug |-> IF find_section(elf, ".mdebug") # 0 THEN elf.mdebug ELSE <<>>,
     little |-> elf.little]

(***************************************************************************)
(* fixup_objfile: the assembly source and the sections to copy             *)
(* (lines 629-734)                                                         *)
(***************************************************************************)
ToCopyData(loc, size, temp_name) ==
    [loc |-> loc, size |-> size, temp_name |-> temp_name]

Fail(st, e) == [st EXCEPT !.err = e]

\* the state fixup_objfile starts from, objfile being the parsed stub
NewMerge(objfile) ==
    [err |-> "none",
     objfile |-> objfile,
     prev_locs |-> [s \in Range(OUTPUT_SECTIONS) |-> 0],
     to_copy |-> [s \in Range(OUTPUT_SECTIONS) |-> <<>>],
     asm |-> <<>>,
     all_late_rodata_dummy_bytes |-> <<>>,
     all_jtbl_rodata_size |-> <<>>,
     late_rodata_asm |-> <<>>,
     all_text_glabels |-> {},
     func_sizes |-> <<>>,
     ifdefed |-> FALSE,
     mdebug_section |-> FALSE,
     modified_text_positions |-> {},
     jtbl_rodata_positions |-> {},
     last_rodata_pos |-> 0,
     moved_late_rodata |-> <<>>,
     asm_syms |-> <<>>,
     new_syms |-> <<>>,
     old_syms |-> <<>>,
     num_local_syms |-> 0,
     new_index |-> <<>>]

\* the section's step without the nops and the .space before the function
CollectSection_NoPad(f, st, sectype) ==
    LET temp_name == f.data[sectype].name
        size == f.data[sectype].size
        sym == find_symbol(st.objfile.symbol_entries, temp_name)
        loc == sym.st_value
    IN IF st.err # "none" \/ st.ifdefed \/ temp_name = NoName THEN st
       ELSE IF size = 0 THEN Fail(st, "panic: Size of section is 0")
       ELSE IF ~sym.found THEN [st EXCEPT !.ifdefed = TRUE]
       ELSE IF loc < st.prev_locs[sectype]
       THEN Fail(st, "panic: Wrongly computed size for section")
       ELSE [st EXCEPT
               !.to_copy[sectype] = Append(@, ToCopyData(loc, size, temp_name)),
               !.func_sizes = IF f.text_glabels # <<>> /\ sectype = ".text"
                              THEN Put(@, f.text_glabels[1], size) ELSE @,
               !.prev_locs[sectype] = loc + size]
\* one (sectype, (temp_name, size)) of function.data (lines 660-702)
CollectSection(f, st, sectype) ==
    LET temp_name == f.data[sectype].name
        size == f.data[sectype].size
        sym == find_symbol(st.objfile.symbol_entries, temp_name)
        loc == sym.st_value
        prev_loc == st.prev_locs[sectype]
    IN IF st.err # "none" \/ st.ifdefed \/ temp_name = NoName THEN st
       ELSE IF size = 0 THEN Fail(st, "panic: Size of section is 0")
       ELSE IF ~sym.found THEN [st EXCEPT !.ifdefed = TRUE]
       ELSE IF loc < prev_loc
       THEN Fail(st, "panic: Wrongly computed size for section")
       ELSE [st EXCEPT
               !.asm = IF loc = prev_loc THEN @
                       ELSE @ \o << <<".section", sectype>>,
                                    IF sectype = ".text"
                                    THEN <<"nop", (loc - prev_loc) \div 4>>
                                    ELSE <<".space", loc - prev_loc>> >>,
               !.to_copy[sectype] = Append(@, ToCopyData(loc, size, temp_name)),
               !.func_sizes = IF f.text_glabels # <<>> /\ sectype = ".text"
                              THEN Put(@, f.text_glabels[1], size) ELSE @,
               !.prev_locs[sectype] = loc + size]

RECURSIVE CollectSections(_, _, _)
CollectSections(f, st, secs) ==
    IF secs = <<>> THEN st
    ELSE LET next == CHOOSE r \in {CollectSection(f, st, Head(secs))} : TRUE
         IN CollectSections(f, next, Tail(secs))

\* the glabel lines put around a function's assembly (lines 709-722)
Labels(f, suffix) ==
    LET named == SelectSeq(OUTPUT_SECTIONS, LAMBDA s : f.data[s].name # NoName)
    IN Flatten([i \in DOMAIN named |->
                  << <<".section", named[i]>>,
                     <<"glabel", f.data[named[i]].name \o suffix>> >>])

\* one function of the loop over functions (lines 653-724)
CollectFunction(f, st0) ==
    LET st == CollectSections(f, [st0 EXCEPT !.ifdefed = FALSE], OUTPUT_SECTIONS)
    IN IF st.err # "none" \/ st.ifdefed THEN st
       ELSE [st EXCEPT
               !.all_text_glabels = @ \cup Range(f.text_glabels),
               !.all_late_rodata_dummy_bytes = Append(@, f.late_rodata_dummy_bytes),
               !.all_jtbl_rodata_size = Append(@, f.jtbl_rodata_size),
               !.late_rodata_asm = @ \o f.late_rodata_asm_conts,
               !.asm = @ \o Labels(f, "_asm_start") \o << <<".text">> >>
                         \o [i \in DOMAIN f.asm_conts |-> <<"asm", f.asm_conts[i]>>]
                         \o Labels(f, "_asm_end")]

RECURSIVE CollectFunctions(_, _)
CollectFunctions(fs, st) ==
    IF fs = <<>> \/ st.err # "none" THEN st
    ELSE LET next == CHOOSE r \in {CollectFunction(Head(fs), st)} : TRUE
         IN CollectFunctions(Tail(fs), next)

\* the late rodata appended to the assembly source (lines 726-734)
LateRodataSource(st) ==
    IF st.err # "none" \/ st.late_rodata_asm = <<>> THEN st
    ELSE [st EXCEPT !.asm = @ \o << <<".section", ".late_rodata">>,
                                    <<".word", 2>>,
                                    <<"glabel", "_asmpp_late_rodata_start">> >>
                              \o [i \in DOMAIN st.late_rodata_asm |->
                                    <<"asm", st.late_rodata_asm[i]>>]
                              \o << <<"glabel", "_asmpp_late_rodata_end">> >>]

(***************************************************************************)
(* fixup_objfile: the assembled object is read (lines 736-790)             *)
(***************************************************************************)
\* ElfFile::drop_mdebug_gptab: the sections are named here by their type
RECURSIVE drop_mdebug_gptab(_)
drop_mdebug_gptab(elf) ==
    IF elf.sections # <<>>
       /\ elf.sections[Len(elf.sections)] \in {".mdebug", ".gptab.data"}
    THEN drop_mdebug_gptab(
           [elf EXCEPT !.sections = SubSeq(@, 1, Len(@) - 1)])
    ELSE elf

\* "Unify reginfo sections": each byte is the set of its bits (lines 780-790)
UnifyReginfo(asm, st) ==
    IF st.err # "none" \/ find_section(st.objfile, ".reginfo") = 0 THEN st
    ELSE IF find_section(asm, ".reginfo") = 0
    THEN Fail(st, "panic: called unwrap on None (.reginfo)")
    ELSE LET s == section_data(asm, ".reginfo")
         IN [st EXCEPT !.objfile.data[".reginfo"] =
                [i \in DOMAIN @ |-> IF i \in DOMAIN s THEN @[i] \cup s[i] ELSE @[i]]]

\* lines 775-790
ReadAssembled(asm, drop, st) ==
    IF st.err # "none" THEN st
    ELSE UnifyReginfo(asm,
           [st EXCEPT !.mdebug_section = (find_section(st.objfile, ".mdebug") # 0),
                      !.objfile = IF drop THEN drop_mdebug_gptab(@) ELSE @])

(***************************************************************************)
(* fixup_objfile: "Move over section contents" (lines 792-854)             *)
(***************************************************************************)
\* the offsets a copied .text region marks: only its first word
ModifiedPositions_FirstWord(loc, size) == {loc}
\* the offsets a copied .text region marks (lines 847-849)
ModifiedPositions(loc, size) == {loc + 4 * j : j \in 0..((size \div 4) - 1)}

\* the checks of one region against the assembled object (lines 803-831);
\* wrap: the build wraps on unsigned overflow instead of aborting
CheckRegion(asm, sectype, wrap, st, c) ==
    LET source == find_section(asm, sectype)
        loc1 == find_symbol_in_section(asm.symbol_entries,
                                       c.temp_name \o "_asm_start", source)
        loc2 == find_symbol_in_section(asm.symbol_entries,
                                       c.temp_name \o "_asm_end", source)
    IN IF st.err # "none" THEN st
       ELSE IF loc1.ok = "assert" \/ (loc1.ok = "some" /\ loc2.ok = "assert")
       THEN Fail(st, "panic: assertion failed: st_shndx == section.index")
       ELSE IF loc1.ok = "none" \/ loc2.ok = "none"
       THEN Fail(st, "panic: called unwrap on None")
       ELSE IF loc1.value # c.loc
       THEN Fail(st, "panic: assembly and C files don't line up")
       ELSE IF loc2.value < loc1.value /\ ~wrap
       THEN Fail(st, "panic: attempt to subtract with overflow")
       ELSE IF loc2.value - loc1.value # c.size
       THEN Fail(st, "incorrectly computed size for section")
       ELSE st

RECURSIVE CheckRegions(_, _, _, _, _)
CheckRegions(asm, sectype, wrap, st, cs) ==
    IF cs = <<>> THEN st
    ELSE LET next == CHOOSE r \in {CheckRegion(asm, sectype, wrap, st, Head(cs))} : TRUE
         IN CheckRegions(asm, sectype, wrap, next, Tail(cs))

\* one region copied over (lines 841-853)
CopyRegion(asm, sectype, st, c) ==
    LET source == section_data(asm, sectype)
        target == section_data(st.objfile, sectype)
    IN IF st.err # "none" THEN st
       ELSE IF c.loc + c.size > Len(target) \/ c.loc + c.size > Len(source)
       THEN Fail(st, "panic: range end index out of range for slice")
       ELSE IF sectype = ".text" /\ (c.size % 4 # 0 \/ c.loc % 4 # 0)
       THEN Fail(st, "panic: assertion failed: size % 4 == 0, loc % 4 == 0")
       ELSE [st EXCEPT
               !.objfile.data[sectype] =
                   [i \in DOMAIN target |->
                      IF c.loc < i /\ i <= c.loc + c.size THEN source[i]
                      ELSE target[i]],
               !.modified_text_positions =
                   IF sectype = ".text"
                   THEN @ \cup ModifiedPositions(c.loc, c.size) ELSE @,
               !.last_rodata_pos =
                   IF sectype = ".rodata" THEN c.loc + c.size ELSE @]

RECURSIVE CopyRegions(_, _, _, _)
CopyRegions(asm, sectype, st, cs) ==
    IF cs = <<>> THEN st
    ELSE LET next == CHOOSE r \in {CopyRegion(asm, sectype, st, Head(cs))} : TRUE
         IN CopyRegions(asm, sectype, next, Tail(cs))

\* one sectype of the loop over OUTPUT_SECTIONS (lines 796-854)
CopySection(asm, wrap, st, sectype) ==
    IF st.err # "none" \/ st.to_copy[sectype] = <<>> THEN st
    ELSE IF find_section(asm, sectype) = 0
    THEN Fail(st, "panic: didn't find source section")
    ELSE LET checked == CheckRegions(asm, sectype, wrap, st, st.to_copy[sectype])
         IN IF checked.err # "none" \/ sectype = ".bss" THEN checked
            ELSE IF find_section(st.objfile, sectype) = 0
            THEN Fail(st, "panic: didn't find target section")
            ELSE CopyRegions(asm, sectype, st, st.to_copy[sectype])

RECURSIVE CopySections(_, _, _, _)
CopySections(asm, wrap, st, secs) ==
    IF secs = <<>> THEN st
    ELSE LET next == CHOOSE r \in {CopySection(asm, wrap, st, Head(secs))} : TRUE
         IN CopySections(asm, wrap, next, Tail(secs))

(***************************************************************************)
(* fixup_objfile: "Move over late rodata" (lines 856-934)                  *)
(***************************************************************************)
Reverse(s) == [i \in DOMAIN s |-> s[Len(s) + 1 - i]]

Zeros == <<0, 0, 0, 0>>

\* data[pos..pos + n]
Slice(data, pos, n) == SubSeq(data, pos + 1, pos + n)

\* data[pos..pos + Len(bytes)] = bytes
Overwrite(data, pos, bytes) ==
    [i \in DOMAIN data |->
       IF pos < i /\ i <= pos + Len(bytes) THEN bytes[i - pos] ELSE data[i]]

\* target.data[from..].windows(4).position(|x| x == bytes) + from, -1 for None
FindDummy(data, from, bytes) ==
    LET hits == {p \in from..(Len(data) - 4) : Slice(data, p, 4) = bytes}
    IN IF hits = {} THEN -1
       ELSE CHOOSE p \in hits : \A q \in hits : p <= q

\* one dummy of a function, written into a fresh copy of the target
MoveDummy_FreshCopy(source, target, little, len, m, index, dummy) ==
    LET st == m.st
        dummy_bytes == IF little THEN Reverse(dummy) ELSE dummy
        found == FindDummy(target, st.last_rodata_pos, dummy_bytes)
    IN IF st.err # "none" THEN m
       ELSE IF found < 0
       THEN [m EXCEPT !.st = Fail(st, "panic: failed to find dummy .late_rodata bytes")]
       ELSE [m EXCEPT
               !.new_data = Overwrite(target, found, Slice(source, m.source_pos, 4)),
               !.source_pos = @ + 4,
               !.st = [st EXCEPT !.moved_late_rodata = Put(@, m.source_pos, found),
                                 !.last_rodata_pos = found + 4]]

\* one dummy of a function (lines 890-918); m: [new_data, source_pos, st]
MoveDummy(source, target, little, len, m, index, dummy) ==
    LET st == m.st
        dummy_bytes == IF little THEN Reverse(dummy) ELSE dummy
        found == FindDummy(target, st.last_rodata_pos, dummy_bytes)
        hack == /\ index = 0
                /\ len > 1
                /\ Slice(target, found + 4, 4) = Zeros
        pos == IF hack THEN found + 4 ELSE found
        cleared == IF hack THEN Overwrite(m.new_data, found, Zeros) ELSE m.new_data
    IN IF st.err # "none" THEN m
       ELSE IF st.last_rodata_pos > Len(target)
       THEN [m EXCEPT !.st = Fail(st, "panic: range start index out of range for slice")]
       ELSE IF found < 0
       THEN [m EXCEPT !.st = Fail(st, "panic: failed to find dummy .late_rodata bytes")]
       ELSE IF index = 0 /\ len > 1 /\ found + 8 > Len(target)
       THEN [m EXCEPT !.st = Fail(st, "panic: range end index out of range for slice")]
       ELSE IF pos + 4 > Len(cleared) \/ m.source_pos + 4 > Len(source)
       THEN [m EXCEPT !.st = Fail(st, "panic: range end index out of range for slice")]
       ELSE [m EXCEPT
               !.new_data = Overwrite(cleared, pos, Slice(source, m.source_pos, 4)),
               !.source_pos = @ + 4,
               !.st = [st EXCEPT !.moved_late_rodata = Put(@, m.source_pos, pos),
                                 !.last_rodata_pos = pos + 4]]

RECURSIVE MoveDummies(_, _, _, _, _, _)
MoveDummies(source, target, little, dummies, m, index) ==
    IF index >= Len(dummies) THEN m
    ELSE LET next == CHOOSE r \in {MoveDummy(source, target, little, Len(dummies),
                                            m, index, dummies[index + 1])} : TRUE
         IN MoveDummies(source, target, little, dummies, next, index + 1)

\* the jump table of a function (lines 920-931)
MoveJtbl(source, dummies, jtbl_rodata_size, m) ==
    LET st == m.st
        pos == st.last_rodata_pos
        offs == {4 * i : i \in 0..((jtbl_rodata_size + 3) \div 4 - 1)}
    IN IF st.err # "none" \/ jtbl_rodata_size = 0 THEN m
       ELSE IF dummies = <<>>
       THEN [m EXCEPT !.st = Fail(st, "panic: assertion failed: !dummy_bytes_list.is_empty()")]
       ELSE IF pos + jtbl_rodata_size > Len(m.new_data)
               \/ m.source_pos + jtbl_rodata_size > Len(source)
       THEN [m EXCEPT !.st = Fail(st, "panic: range end index out of range for slice")]
       ELSE [m EXCEPT
               !.new_data = Overwrite(@, pos,
                               Slice(source, m.source_pos, jtbl_rodata_size)),
               !.source_pos = @ + jtbl_rodata_size,
               !.st = [st EXCEPT
                         !.moved_late_rodata =
                             [x \in (DOMAIN @) \cup {m.source_pos + i : i \in offs} |->
                                IF x - m.source_pos \in offs THEN pos + (x - m.source_pos)
                                ELSE @[x]],
                         !.jtbl_rodata_positions = @ \cup {pos + i : i \in offs},
                         !.last_rodata_pos = pos + jtbl_rodata_size]]

\* the loop over the functions' dummies and jump tables (lines 884-932)
RECURSIVE MoveFunctions(_, _, _, _, _, _)
MoveFunctions(source, target, little, all_dummies, all_jtbl, m) ==
    IF all_dummies = <<>> \/ all_jtbl = <<>> THEN m
    ELSE LET next == CHOOSE r \in
                {MoveJtbl(source, Head(all_dummies), Head(all_jtbl),
                    MoveDummies(source, target, little, Head(all_dummies), m, 0))} : TRUE
         IN MoveFunctions(source, target, little, Tail(all_dummies), Tail(all_jtbl), next)

\* lines 856-934
MoveLateRodata(asm, little, wrap, st) ==
    LET source == section_data(asm, ".late_rodata")
        target == section_data(st.objfile, ".rodata")
        source_index == find_section(asm, ".late_rodata")
        source_pos == find_symbol_in_section(asm.symbol_entries,
                          "_asmpp_late_rodata_start", source_index)
        source_end == find_symbol_in_section(asm.symbol_entries,
                          "_asmpp_late_rodata_end", source_index)
        num_dummies == SumSeq([i \in DOMAIN st.all_late_rodata_dummy_bytes |->
                                  Len(st.all_late_rodata_dummy_bytes[i])])
        expected_size == num_dummies * 4 + SumSeq(st.all_jtbl_rodata_size)
        moved == MoveFunctions(source, target, little,
                    st.all_late_rodata_dummy_bytes, st.all_jtbl_rodata_size,
                    [new_data |-> target, source_pos |-> source_pos.value, st |-> st])
    IN IF st.err # "none" THEN st
       ELSE IF ~( (\E i \in DOMAIN st.all_late_rodata_dummy_bytes :
                      st.all_late_rodata_dummy_bytes[i] # <<>>)
                  \/ (\E i \in DOMAIN st.all_jtbl_rodata_size :
                      st.all_jtbl_rodata_size[i] > 0) )
       THEN st
       ELSE IF source_index = 0
       THEN Fail(st, "panic: .late_rodata source section should exist")
       ELSE IF find_section(st.objfile, ".rodata") = 0
       THEN Fail(st, "panic: .rodata target section should exist")
       ELSE IF source_pos.ok = "assert" \/ (source_pos.ok = "some" /\ source_end.ok = "assert")
       THEN Fail(st, "panic: assertion failed: st_shndx == section.index")
       ELSE IF source_pos.ok = "none" \/ source_end.ok = "none"
       THEN Fail(st, "panic: called unwrap on None")
       ELSE IF source_end.value < source_pos.value /\ ~wrap
       THEN Fail(st, "panic: attempt to subtract with overflow")
       ELSE IF source_end.value - source_pos.value # expected_size
       THEN Fail(st, "computed wrong size of .late_rodata")
       ELSE IF moved.st.err # "none" THEN moved.st
       ELSE [moved.st EXCEPT !.objfile.data[".rodata"] = moved.new_data]

(***************************************************************************)
(* fixup_objfile: the symbols (lines 936-1225)                             *)
(***************************************************************************)
\* the entries (counted from 1) of the assembled symbol table that a
\* relocation of an input section names (lines 942-953)
relocated_symbols(asm) ==
    UNION { { asm.reltabs[t].relocations[r].sym_index + 1 :
                r \in DOMAIN asm.reltabs[t].relocations } :
            t \in { t \in DOMAIN asm.reltabs :
                      \E i \in DOMAIN INPUT_SECTION_NAMES :
                         /\ find_section(asm, INPUT_SECTION_NAMES[i]) # 0
                         /\ asm.reltabs[t].sh_info
                              = find_section(asm, INPUT_SECTION_NAMES[i]) } }

\* the stub's symbols that are kept (lines 959-966)
KeptStubSymbols(entries) ==
    SelectSeq(Tail(entries), LAMBDA x : ~starts_with_asmpp(x.name))

\* the body of the loop over the assembled symbols for entry i, counted
\* from 1 (lines 968-1018).  relocated_symbols.contains(s) compares values.
ImportSymbol(asm, st, i) ==
    LET s == st.asm_syms[i]
        is_local == i - 1 < asm.sh_info
        relocated == \E j \in relocated_symbols(asm) :
                        j \in DOMAIN st.asm_syms /\ st.asm_syms[j] = s
        section_name == asm.sections[s.st_shndx]
        late == section_name = ".late_rodata"
        target_section_name == IF late THEN ".rodata" ELSE section_name
        index == find_section(st.objfile, target_section_name)
        is_glabel == s.name \in st.all_text_glabels
        moved == [s EXCEPT
                    !.st_shndx = index,
                    !.st_type = IF is_glabel THEN STT_FUNC ELSE @,
                    !.st_size = IF is_glabel /\ s.name \in DOMAIN st.func_sizes
                                THEN st.func_sizes[s.name] ELSE @,
                    !.st_value = IF late THEN st.moved_late_rodata[@] ELSE @]
    IN IF st.err # "none" THEN st
       ELSE IF is_local /\ ~relocated THEN st
       ELSE IF starts_with_asmpp(s.name)
       THEN (IF relocated
             THEN Fail(st, "panic: assertion failed: !relocated_symbols.contains(s)")
             ELSE st)
       ELSE IF s.st_shndx \in {SHN_UNDEF, SHN_ABS}
       THEN [st EXCEPT !.new_syms = Append(@, s)]
       ELSE IF s.st_shndx \notin DOMAIN asm.sections
       THEN Fail(st, "panic: index out of bounds")
       ELSE IF ~late /\ section_name \notin Range(INPUT_SECTION_NAMES)
       THEN Fail(st, "generated assembly .o must only have symbols for .text, .data, .rodata, .late_rodata, ABS and UNDEF")
       ELSE IF index = 0
       THEN Fail(st, "generated assembly .o has section that real objfile lacks")
       ELSE IF late /\ s.st_value = 0
       THEN Fail(st, "local symbols in .late_rodata are not allowed")
       ELSE IF late /\ s.st_value \notin DOMAIN st.moved_late_rodata
       THEN Fail(st, "panic: key not found in moved_late_rodata")
       ELSE [st EXCEPT !.asm_syms[i] = moved,
                       !.new_syms = Append(@, moved)]

RECURSIVE ImportSymbols(_, _, _)
ImportSymbols(asm, st, i) ==
    IF i > Len(st.asm_syms) THEN st
    ELSE LET next == CHOOSE r \in {ImportSymbol(asm, st, i)} : TRUE
         IN ImportSymbols(asm, next, i + 1)

\* the change of scope_level, were an ENUM record to make none
ScopeDelta_NoEnum(st_kind) ==
    IF st_kind \in {MIPS_DEBUG_ST_FILE, MIPS_DEBUG_ST_STRUCT, MIPS_DEBUG_ST_UNION,
                    MIPS_DEBUG_ST_BLOCK, MIPS_DEBUG_ST_PROC,
                    MIPS_DEBUG_ST_STATIC_PROC}
    THEN 1
    ELSE IF st_kind = MIPS_DEBUG_ST_END THEN -1 ELSE 0

\* the change of scope_level a .mdebug symbol makes (lines 1116-1130)
ScopeDelta(st_kind) ==
    IF st_kind \in {MIPS_DEBUG_ST_FILE, MIPS_DEBUG_ST_STRUCT, MIPS_DEBUG_ST_UNION,
                    MIPS_DEBUG_ST_ENUM, MIPS_DEBUG_ST_BLOCK, MIPS_DEBUG_ST_PROC,
                    MIPS_DEBUG_ST_STATIC_PROC}
    THEN 1
    ELSE IF st_kind = MIPS_DEBUG_ST_END THEN -1 ELSE 0

\* the sections of the storage classes without .rodata
StaticSectionName_NoRodata(sc) ==
    CASE sc = 1 -> ".text"
      [] sc = 2 -> ".data"
      [] sc = 3 -> ".bss"
      [] OTHER -> ""

\* the section of a .mdebug storage class, "" where unsupported (lines 1085-1093)
StaticSectionName(sc) ==
    CASE sc = 1 -> ".text"
      [] sc = 2 -> ".data"
      [] sc = 3 -> ".bss"
      [] sc = 15 -> ".rodata"
      [] OTHER -> ""

\* one symbol record y = [st, sc, name, value] of a file descriptor
\* (lines 1050-1131); a: [st, scope_level, static_name_count]
StaticSymbol(convert_statics, objfile_path, a, y) ==
    LET st == a.st
        count == (IF y.name \in DOMAIN a.static_name_count
                  THEN a.static_name_count[y.name] ELSE 0) + 1
        symbol_name == IF a.scope_level > 1
                       THEN y.name \o ":" \o ToString(count) ELSE y.name
        emitted_symbol_name ==
            IF convert_statics = "GlobalWithFilename"
            THEN objfile_path \o ":" \o symbol_name ELSE symbol_name
        section_name == StaticSectionName(y.sc)
        sym == [name |-> symbol_name,
                st_name |-> emitted_symbol_name,
                st_value |-> y.value,
                st_size |-> 0,
                st_bind |-> IF convert_statics \in {"Global", "GlobalWithFilename"}
                            THEN STB_GLOBAL ELSE STB_LOCAL,
                st_type |-> IF y.sc = 1 THEN STT_FUNC ELSE STT_OBJECT,
                st_visibility |-> STV_DEFAULT,
                st_shndx |-> find_section(st.objfile, section_name)]
    IN IF st.err # "none" THEN a
       ELSE IF y.st \notin {MIPS_DEBUG_ST_STATIC, MIPS_DEBUG_ST_STATIC_PROC}
       THEN [a EXCEPT !.scope_level = @ + ScopeDelta(y.st)]
       ELSE IF section_name = ""
       THEN [a EXCEPT !.st = Fail(st, "unsupported MIPS_DEBUG_SC value")]
       ELSE IF find_section(st.objfile, section_name) = 0
       THEN [a EXCEPT !.st = Fail(st, "panic: called unwrap on None")]
       ELSE [a EXCEPT
               !.static_name_count = IF a.scope_level > 1
                                     THEN Put(@, y.name, count) ELSE @,
               !.st = [st EXCEPT !.new_syms = Append(@, sym)],
               !.scope_level = @ + ScopeDelta(y.st)]

RECURSIVE StaticSymbols(_, _, _, _)
StaticSymbols(convert_statics, objfile_path, a, ys) ==
    IF ys = <<>> THEN a
    ELSE LET next == CHOOSE r \in {StaticSymbol(convert_statics, objfile_path,
                                                a, Head(ys))} : TRUE
         IN StaticSymbols(convert_statics, objfile_path, next, Tail(ys))

\* one file descriptor (lines 1043-1133)
StaticFile(convert_statics, objfile_path, a, fd) ==
    LET r == StaticSymbols(convert_statics, objfile_path,
                           [a EXCEPT !.scope_level = 0], fd)
    IN IF a.st.err # "none" \/ r.st.err # "none" THEN r
       ELSE IF r.scope_level # 0
       THEN [r EXCEPT !.st = Fail(r.st, "panic: assertion failed: scope_level == 0")]
       ELSE r

RECURSIVE StaticFiles(_, _, _, _)
StaticFiles(convert_statics, objfile_path, a, fds) ==
    IF fds = <<>> THEN a
    ELSE LET next == CHOOSE r \in {StaticFile(convert_statics, objfile_path,
                                              a, Head(fds))} : TRUE
         IN StaticFiles(convert_statics, objfile_path, next, Tail(fds))

\* "Add static symbols from .mdebug" (lines 1020-1136); mdebug: the file
\* descriptors of the stub's .mdebug section
ImportStatics(convert_statics, objfile_path, mdebug, st) ==
    IF st.err # "none" \/ ~st.mdebug_section \/ convert_statics = "No" THEN st
    ELSE StaticFiles(convert_statics, objfile_path,
                     [st |-> st, scope_level |-> 0, static_name_count |-> <<>>],
                     mdebug).st

\* new_syms left in the order it was collected in
Unsorted(syms) == syms

\* new_syms.sort_by (lines 1140-1146): the comparison orders a defined
\* symbol before an undefined one and nothing else, and the sort is stable
DefinedFirst(syms) ==
    SelectSeq(syms, LAMBDA s : s.st_shndx # SHN_UNDEF)
      \o SelectSeq(syms, LAMBDA s : s.st_shndx = SHN_UNDEF)

\* the body of the loop that drops duplicates (lines 1156-1194);
\* d: [err, newer_syms, name_to_sym, old_syms]
Dedup(d, s0) ==
    LET s == IF s0.name = "_gp_disp" THEN [s0 EXCEPT !.st_type = STT_OBJECT] ELSE s0
        existing == d.name_to_sym[s.name]
    IN IF d.err # "none" THEN d
       ELSE IF s.st_bind = STB_LOCAL /\ s.st_shndx = SHN_UNDEF
       THEN [d EXCEPT !.err = "local symbol is undefined"]
       ELSE IF s.name = ""
       THEN (IF s.st_bind # STB_LOCAL
             THEN [d EXCEPT !.err = "global symbol with no name"]
             ELSE [d EXCEPT !.newer_syms = Append(@, s)])
       ELSE IF s.name \notin DOMAIN d.name_to_sym
       THEN [d EXCEPT !.name_to_sym = Put(@, s.name, s),
                      !.newer_syms = Append(@, s)]
       ELSE IF /\ s.st_shndx # SHN_UNDEF
               /\ ~(existing.st_shndx = s.st_shndx /\ existing.st_value = s.st_value)
       THEN [d EXCEPT !.err = "symbol defined twice"]
       ELSE [d EXCEPT !.old_syms = Append(@, [sym1 |-> s, sym2 |-> existing])]

RECURSIVE DedupAll(_, _)
DedupAll(d, syms) ==
    IF syms = <<>> THEN d
    ELSE LET next == CHOOSE r \in {Dedup(d, Head(syms))} : TRUE
         IN DedupAll(next, Tail(syms))

\* the key of new_syms.sort_by_key, without _gp_disp
SortKey_BindOnly(a) == IF a.st_bind # STB_LOCAL THEN 2 ELSE 0
\* the key of new_syms.sort_by_key (lines 1200-1205): the pair
\* (st_bind != STB_LOCAL, name == "_gp_disp") in its order
SortKey(a) ==
    (IF a.st_bind # STB_LOCAL THEN 2 ELSE 0) + (IF a.name = "_gp_disp" THEN 1 ELSE 0)

\* sort_by_key is stable
sort_by_key(syms) ==
    SelectSeq(syms, LAMBDA a : SortKey(a) = 0)
      \o SelectSeq(syms, LAMBDA a : SortKey(a) = 1)
      \o SelectSeq(syms, LAMBDA a : SortKey(a) = 2)
      \o SelectSeq(syms, LAMBDA a : SortKey(a) = 3)

\* new_index after the loop over new_syms (lines 1214-1216): indices
\* count from 0, a later entry of the same name replaces an earlier one
RECURSIVE IndexByName(_, _, _)
IndexByName(syms, i, m) ==
    IF i > Len(syms) THEN m
    ELSE LET next == CHOOSE r \in {Put(m, syms[i].name, i - 1)} : TRUE
         IN IndexByName(syms, i + 1, next)

\* new_index after the loop over old_syms (lines 1217-1222)
RECURSIVE IndexOldSyms(_, _)
IndexOldSyms(old, m) ==
    IF old = <<>> THEN m
    ELSE LET next == CHOOSE r \in {Put(m, Head(old).sym1.name,
                                       m[Head(old).sym2.name])} : TRUE
         IN IndexOldSyms(Tail(old), next)

\* lines 1138-1225
Reorder(st) ==
    LET d == DedupAll([err |-> "none", newer_syms |-> <<>>,
                       name_to_sym |-> <<>>, old_syms |-> <<>>],
                      DefinedFirst(st.new_syms))
        empty_symbol == st.objfile.symbol_entries[1]
        new_syms == sort_by_key(<<empty_symbol>> \o d.newer_syms)
    IN IF st.err # "none" THEN st
       ELSE IF d.err # "none" THEN Fail(st, d.err)
       ELSE [st EXCEPT
               !.new_syms = new_syms,
               !.old_syms = d.old_syms,
               !.num_local_syms =
                   Len(SelectSeq(new_syms, LAMBDA x : x.st_bind = STB_LOCAL)),
               !.new_index = IndexOldSyms(d.old_syms,
                                          IndexByName(new_syms, 1, <<>>)),
               !.objfile.symtab_data = [i \in DOMAIN new_syms |-> to_bin(new_syms[i])],
               !.objfile.sh_info =
                   Len(SelectSeq(new_syms, LAMBDA x : x.st_bind = STB_LOCAL))]

\* new_syms before the duplicates are dropped (lines 936-1136)
CollectSymbols(asm, convert_statics, objfile_path, mdebug, st) ==
    ImportStatics(convert_statics, objfile_path, mdebug,
      ImportSymbols(asm,
        [st EXCEPT !.asm_syms = asm.symbol_entries,
                   !.new_syms = KeptStubSymbols(st.objfile.symbol_entries)],
        1))

\* lines 936-1225
MergeSymbols(asm, convert_statics, objfile_path, mdebug, st) ==
    Reorder(CollectSymbols(asm, convert_statics, objfile_path, mdebug, st))

(***************************************************************************)
(* fixup_objfile: the relocations (lines 1227-1312)                        *)
(***************************************************************************)
\* one entry of a stub relocation table, were the cells of the jump tables
\* not looked at
FixRelocation_TextOnly(st, sectype, acc, rel) ==
    LET symbol_entries == st.objfile.symbol_entries
        name == symbol_entries[rel.sym_index + 1].name
    IN IF acc.err # "none" THEN acc
       ELSE IF sectype = ".text" /\ rel.r_offset \in st.modified_text_positions
       THEN acc
       ELSE IF rel.sym_index + 1 \notin DOMAIN symbol_entries
       THEN [acc EXCEPT !.err = "panic: index out of bounds"]
       ELSE IF name \notin DOMAIN st.new_index
       THEN [acc EXCEPT !.err = "panic: key not found in new_index"]
       ELSE [acc EXCEPT !.nrels =
               Append(@, [rel EXCEPT !.sym_index = st.new_index[name]])]

\* one entry of a stub relocation table (lines 1238-1250);
\* acc: [err, nrels]
FixRelocation(st, sectype, acc, rel) ==
    LET symbol_entries == st.objfile.symbol_entries
        name == symbol_entries[rel.sym_index + 1].name
    IN IF acc.err # "none" THEN acc
       ELSE IF \/ (sectype = ".text" /\ rel.r_offset \in st.modified_text_positions)
               \/ (sectype = ".rodata" /\ rel.r_offset \in st.jtbl_rodata_positions)
       THEN acc
       ELSE IF rel.sym_index + 1 \notin DOMAIN symbol_entries
       THEN [acc EXCEPT !.err = "panic: index out of bounds"]
       ELSE IF name \notin DOMAIN st.new_index
       THEN [acc EXCEPT !.err = "panic: key not found in new_index"]
       ELSE [acc EXCEPT !.nrels =
               Append(@, [rel EXCEPT !.sym_index = st.new_index[name]])]

RECURSIVE FixRelocations(_, _, _, _)
FixRelocations(st, sectype, acc, rels) ==
    IF rels = <<>> THEN acc
    ELSE LET next == CHOOSE r \in {FixRelocation(st, sectype, acc, Head(rels))} : TRUE
         IN FixRelocations(st, sectype, next, Tail(rels))

\* one table of target.relocated_by (lines 1235-1253)
FixTable(st, sectype, t) ==
    LET r == FixRelocations(st, sectype, [err |-> "none", nrels |-> <<>>],
                            st.objfile.reltabs[t].relocations)
    IN IF st.err # "none" THEN st
       ELSE IF r.err # "none" THEN Fail(st, r.err)
       ELSE [st EXCEPT !.objfile.reltabs[t].relocations = r.nrels,
                       !.objfile.reltabs[t].data = r.nrels]

RECURSIVE FixTables(_, _, _)
FixTables(st, sectype, ts) ==
    IF ts = <<>> THEN st
    ELSE LET next == CHOOSE r \in {FixTable(st, sectype, Head(ts))} : TRUE
         IN FixTables(next, sectype, Tail(ts))

\* "Fix up relocation symbol references" (lines 1227-1255)
RECURSIVE FixupRelocations(_, _)
FixupRelocations(st, secs) ==
    IF secs = <<>> THEN st
    ELSE LET target == find_section(st.objfile, Head(secs))
             next == CHOOSE r \in
                       {IF target = 0 THEN st
                        ELSE FixTables(st, Head(secs),
                                       relocated_by(st.objfile, target))} : TRUE
         IN FixupRelocations(next, Tail(secs))

\* one entry of an assembled relocation table (lines 1272-1279)
MoveRelocation(asm, st, sectype, acc, rel) ==
    LET name == asm.symbol_entries[rel.sym_index + 1].name
    IN IF acc.err # "none" THEN acc
       ELSE IF rel.sym_index + 1 \notin DOMAIN asm.symbol_entries
       THEN [acc EXCEPT !.err = "panic: index out of bounds"]
       ELSE IF name \notin DOMAIN st.new_index
       THEN [acc EXCEPT !.err = "panic: key not found in new_index"]
       ELSE IF sectype = ".late_rodata" /\ rel.r_offset \notin DOMAIN st.moved_late_rodata
       THEN [acc EXCEPT !.err = "panic: key not found in moved_late_rodata"]
       ELSE [acc EXCEPT !.nrels =
               Append(@, [rel EXCEPT
                            !.sym_index = st.new_index[name],
                            !.r_offset = IF sectype = ".late_rodata"
                                         THEN st.moved_late_rodata[@] ELSE @])]

RECURSIVE MoveRelocations(_, _, _, _, _)
MoveRelocations(asm, st, sectype, acc, rels) ==
    IF rels = <<>> THEN acc
    ELSE LET next == CHOOSE r \in {MoveRelocation(asm, st, sectype, acc, Head(rels))} : TRUE
         IN MoveRelocations(asm, st, sectype, next, Tail(rels))

\* the table of that name in the object, 0 for None
find_reltab(elf, name) ==
    IF \E t \in DOMAIN elf.reltabs : elf.reltabs[t].name = name
    THEN CHOOSE t \in DOMAIN elf.reltabs :
            /\ elf.reltabs[t].name = name
            /\ \A u \in 1..(t - 1) : elf.reltabs[u].name # name
    ELSE 0

\* one table of source.relocated_by (lines 1270-1310)
MoveTable(asm, st, sectype, t) ==
    LET reltab == asm.reltabs[t]
        target_sectype == IF sectype = ".late_rodata" THEN ".rodata" ELSE sectype
        target_index == find_section(st.objfile, target_sectype)
        r == MoveRelocations(asm, st, sectype, [err |-> "none", nrels |-> <<>>],
                             reltab.relocations)
        rel_section_name ==
            (IF reltab.sh_type = "REL" THEN ".rel" ELSE ".rela") \o target_sectype
        target_reltab == find_reltab(st.objfile, rel_section_name)
    IN IF st.err # "none" THEN st
       ELSE IF r.err # "none" THEN Fail(st, r.err)
       ELSE IF target_reltab # 0
       THEN [st EXCEPT !.objfile.reltabs[target_reltab].data = @ \o r.nrels]
       ELSE [st EXCEPT !.objfile.reltabs =
               Append(@, [name |-> rel_section_name, sh_type |-> reltab.sh_type,
                          sh_info |-> target_index, relocations |-> <<>>,
                          data |-> r.nrels])]

RECURSIVE MoveTables(_, _, _, _)
MoveTables(asm, st, sectype, ts) ==
    IF ts = <<>> THEN st
    ELSE LET next == CHOOSE r \in {MoveTable(asm, st, sectype, Head(ts))} : TRUE
         IN MoveTables(asm, next, sectype, Tail(ts))

\* one section name of "Move over relocations" (lines 1258-1312)
MoveSectionRelocations(asm, st, sectype) ==
    LET source == find_section(asm, sectype)
        target_sectype == IF sectype = ".late_rodata" THEN ".rodata" ELSE sectype
    IN IF st.err # "none" \/ source = 0 \/ section_data(asm, sectype) = <<>> THEN st
       ELSE IF find_section(st.objfile, target_sectype) = 0
       THEN Fail(st, "panic: called unwrap on None")
       ELSE MoveTables(asm, st, sectype, relocated_by(asm, source))

RECURSIVE MoveOverRelocations(_, _, _)
MoveOverRelocations(asm, st, secs) ==
    IF secs = <<>> THEN st
    ELSE LET next == CHOOSE r \in {MoveSectionRelocations(asm, st, Head(secs))} : TRUE
         IN MoveOverRelocations(asm, next, Tail(secs))

(***************************************************************************)
(* The objects fixup_objfile is run on                                     *)
(***************************************************************************)
StubSections == <<".text", ".data", ".rodata", ".bss", ".sdata", ".reginfo">>
AsmSections == <<".text", ".data", ".bss", ".reginfo", ".rodata", ".late_rodata">>

Bytes(base, n) == [i \in 1..n |-> base + i - 1]

NullSymbol == Symbol("", SHN_UNDEF, 0, STB_LOCAL, 0)

\* unnamed local symbols of the first k sections
SectionSymbols(k) == [i \in 1..k |-> Symbol("", i, 0, STB_LOCAL, 3)]

FooKinds == {"none", "undef", "defined"}

\* a symbol foo: absent, undefined, or defined in .text (section 1 of both
\* objects) at value
Foo(kind, value) ==
    CASE kind = "undef" -> <<Symbol("foo", SHN_UNDEF, 0, STB_GLOBAL, 0)>>
      [] kind = "defined" -> <<Symbol("foo", 1, value, STB_GLOBAL, STT_FUNC)>>
      [] OTHER -> <<>>

\* a block of .text: where the stub has it, its size in the Function, and
\* the size the assembler gave it
Region(loc, size) == [loc |-> loc, size |-> size, asm_size |-> size]

TempName(n) == "_asmpp_func" \o ToString(n)

\* the Function of the n-th block: size bytes of .text, and late rodata
TextFunction(n, size, dummies) ==
    [text_glabels |-> <<"func" \o ToString(n)>>,
     asm_conts |-> <<"instr">>,
     late_rodata_dummy_bytes |-> dummies,
     jtbl_rodata_size |-> 0,
     late_rodata_asm_conts |-> IF dummies = <<>> THEN <<>> ELSE <<"word">>,
     data |-> [s \in Range(OUTPUT_SECTIONS) |->
                 IF s = ".text" THEN Sym(TempName(n), size) ELSE Sym(NoName, 0)]]

\* the symbol table the compiler made of the stub: the null entry, section
\* symbols, then the globals
StubSymtab(k, gp, foo, regions) ==
    <<NullSymbol>> \o SectionSymbols(k)
      \o (IF gp THEN <<Symbol("_gp_disp", SHN_UNDEF, 0, STB_GLOBAL, 0)>> ELSE <<>>)
      \o [n \in DOMAIN regions |->
            Symbol(TempName(n), 1, regions[n].loc, STB_GLOBAL, STT_FUNC)]
      \o Foo(foo, 4 * (MaxTextWords - 1))

\* relocation entries naming symbols of symtab
Entries(from, symtab, rels) ==
    [i \in DOMAIN rels |->
       Relocation(rels[i].off, rels[i].sym, 4, from, symtab[rels[i].sym + 1])]

Tables(name, target, entries) ==
    IF entries = <<>> THEN <<>> ELSE <<RelTable(name, "REL", target, entries)>>

\* the stub object file: trels and srels are the entries of .rel.text and
\* .rel.sdata, mdebug the file descriptors of .mdebug (<<>>: no .mdebug)
StubFile(symtab, sh_info, trels, srels, rodata, mdebug, little) ==
    [sections |-> IF mdebug = <<>> THEN StubSections
                  ELSE Append(StubSections, ".mdebug"),
     data |-> [s \in {".text", ".data", ".rodata", ".sdata", ".reginfo"} |->
                CASE s = ".text" -> Bytes(100, 4 * MaxTextWords)
                  [] s = ".data" -> Bytes(150, 8)
                  [] s = ".rodata" -> rodata
                  [] s = ".sdata" -> Bytes(170, 4)
                  [] OTHER -> <<{1, 2}, {}>>],
     symtab |-> [i \in DOMAIN symtab |-> to_bin(symtab[i])],
     sh_info |-> sh_info,
     reltabs |-> Tables(".rel.text", 1, Entries("stub", symtab, trels))
                   \o Tables(".rel.sdata", 5, Entries("stub", symtab, srels)),
     mdebug |-> mdebug,
     little |-> little]

\* the symbol table the assembler makes: the null entry, the section
\* symbol of .text if sect, the labels of every region, foo, and the
\* labels around the late rodata
AsmSymtab(regions, sect, foo, late_size) ==
    <<NullSymbol>>
      \o (IF sect THEN SectionSymbols(1) ELSE <<>>)
      \o Flatten([n \in DOMAIN regions |->
            << Symbol(TempName(n) \o "_asm_start", 1, regions[n].loc, STB_GLOBAL, 0),
               Symbol("func" \o ToString(n), 1, regions[n].loc, STB_GLOBAL, 0),
               Symbol(TempName(n) \o "_asm_end", 1,
                      regions[n].loc + regions[n].asm_size, STB_GLOBAL, 0) >>])
      \o Foo(foo, IF regions = <<>> THEN 0 ELSE regions[1].loc)
      \o (IF late_size = 0 THEN <<>>
          ELSE << Symbol("_asmpp_late_rodata_start", 6, 8, STB_GLOBAL, 0),
                  Symbol("_asmpp_late_rodata_end", 6, 8 + late_size, STB_GLOBAL, 0) >>)

\* the object file the assembler writes for the generated source
AsmFile(regions, sect, foo, arels, late_size, little) ==
    [sections |-> AsmSections,
     data |-> [s \in {".text", ".late_rodata", ".reginfo"} |->
                CASE s = ".text" ->
                       Bytes(200, IF regions = <<>> THEN 0
                                  ELSE regions[Len(regions)].loc
                                         + regions[Len(regions)].asm_size)
                  [] s = ".late_rodata" ->
                       IF late_size = 0 THEN <<>>
                       ELSE <<0, 0, 0, 0, 0, 0, 0, 0>> \o Bytes(240, late_size)
                  [] OTHER -> <<{2, 3}, {4}>>],
     symtab |-> [i \in 1..Len(AsmSymtab(regions, sect, foo, late_size)) |->
                   to_bin(AsmSymtab(regions, sect, foo, late_size)[i])],
     sh_info |-> IF sect THEN 2 ELSE 1,
     reltabs |-> Tables(".rel.text", 1,
                   Entries("asm", AsmSymtab(regions, sect, foo, late_size), arels)),
     mdebug |-> <<>>,
     little |-> little]

MdSym(st, sc, name, value) == [st |-> st, sc |-> sc, name |-> name, value |-> value]

\* a .mdebug with one file: a file-level static, a static procedure and a
\* static inside it
MdebugFile(name) ==
    << << MdSym(MIPS_DEBUG_ST_FILE, 1, "file.c", 0),
          MdSym(MIPS_DEBUG_ST_STATIC, 2, name, 0),
          MdSym(MIPS_DEBUG_ST_STATIC_PROC, 1, "sfn", 4 * (MaxTextWords - 1)),
          MdSym(MIPS_DEBUG_ST_STATIC, 3, name, 4),
          MdSym(MIPS_DEBUG_ST_END, 1, "sfn", 0),
          MdSym(MIPS_DEBUG_ST_END, 1, "file.c", 0) >> >>

StaticNames == {"stat", "foo", "_asmpp_x"}

SymbolVisibility == {"No", "Local", "Global", "GlobalWithFilename"}

MergeArgs(convert_statics, drop) ==
    [convert_statics |-> convert_statics, drop_mdebug_gptab |-> drop,
     objfile_path |-> "obj.o"]

\* at most one entry at offset off, naming any of n symbols
OneEntry(off, n) == {<<>>} \cup {<<[off |-> off, sym |-> s]>> : s \in 0..(n - 1)}

\* up to MaxStubRelocs entries at word offsets of .text, naming symbol sym
RECURSIVE EntriesUpTo(_, _)
EntriesUpTo(len, sym) ==
    IF len = 0 THEN {<<>>}
    ELSE EntriesUpTo(len - 1, sym)
           \cup {Append(r, [off |-> 4 * w, sym |-> sym]) :
                   r \in {x \in EntriesUpTo(len - 1, sym) : Len(x) = len - 1},
                   w \in 0..(MaxTextWords - 1)}

\* one or two blocks of .text inside the stub's .text
RegionChoices ==
    {<<Region(loc, 4 * w)>> :
        loc \in {4 * i : i \in 0..(MaxTextWords - 1)}, w \in 1..2}
    \cup {<<Region(loc, 4), Region(loc + 4 + gap, 4)>> :
            loc \in {0, 4}, gap \in {0, 4}}

NoMerge == [err |-> "none"]

MergeStart(stubfile, asmfile, fns, args) ==
    /\ disk = stubfile
    /\ stub = ElfFile_new(stubfile)
    /\ asm_objfile = ElfFile_new(asmfile)
    /\ functions = fns
    /\ margs = args
    /\ merge = NoMerge
    /\ temp_dir = "none"

Functions(regions) == [n \in DOMAIN regions |-> TextFunction(n, regions[n].size, <<>>)]

\* symbol tables and relocation entries of every shape around one block
InitSymbols ==
    \E k \in 0..MaxSectionSyms, gp \in BOOLEAN, foo \in FooKinds,
       sect \in BOOLEAN, afoo \in FooKinds :
       \E regions \in {<<Region(4, 8)>>} :
          \E symtab \in {StubSymtab(k, gp, foo, regions)},
             na \in {Len(AsmSymtab(regions, sect, afoo, 0))} :
             \E trels \in OneEntry(0, Len(symtab)),
                srels \in OneEntry(0, Len(symtab)),
                arels \in OneEntry(4, na) :
                MergeStart(
                  StubFile(symtab, 1 + k, trels, srels, Bytes(180, 8), <<>>, FALSE),
                  AsmFile(regions, sect, afoo, arels, 0, FALSE),
                  Functions(regions),
                  MergeArgs("No", FALSE))

\* blocks of .text and relocations of the stub's .text at every place
InitRegions ==
    \E regions \in RegionChoices, asm_grows \in BOOLEAN :
       \E symtab \in {StubSymtab(1, FALSE, "undef", regions)} :
          \E trels \in EntriesUpTo(MaxStubRelocs, Len(symtab) - 1) :
             MergeStart(
               StubFile(symtab, 2, trels, <<>>, Bytes(180, 8), <<>>, FALSE),
               AsmFile([regions EXCEPT ![Len(regions)].asm_size =
                           IF asm_grows THEN @ + 4 ELSE @],
                       TRUE, "defined",
                       <<[off |-> regions[1].loc, sym |-> 1]>>, 0, FALSE),
               Functions(regions),
               MergeArgs("No", FALSE))

\* statics of .mdebug under every conversion
InitStatics ==
    \E name \in StaticNames, cs \in SymbolVisibility, drop \in BOOLEAN,
       foo \in {"none", "undef"}, afoo \in {"none", "undef"}, has_mdebug \in BOOLEAN :
       \E regions \in {<<Region(4, 8)>>} :
          \E symtab \in {StubSymtab(0, FALSE, foo, regions)},
             na \in {Len(AsmSymtab(regions, FALSE, afoo, 0))} :
             MergeStart(
               StubFile(symtab, 1,
                        IF foo = "undef" THEN <<[off |-> 0, sym |-> 2]>> ELSE <<>>,
                        <<>>, Bytes(180, 8),
                        IF has_mdebug THEN MdebugFile(name) ELSE <<>>, FALSE),
               AsmFile(regions, FALSE, afoo,
                       IF afoo = "undef" THEN <<[off |-> 4, sym |-> na - 1]>> ELSE <<>>,
                       0, FALSE),
               Functions(regions),
               MergeArgs(cs, drop))

\* the dummy float of a block with late rodata
Dummy == <<224, 0, 0, 1>>

\* a block with late rodata, in an object of either byte order
InitLateRodata ==
    \E little \in BOOLEAN, at \in {0, 4}, found \in BOOLEAN :
       \E regions \in {<<Region(0, 8)>>} :
          \E symtab \in {StubSymtab(0, FALSE, "none", regions)} :
             MergeStart(
               StubFile(symtab, 1, <<>>, <<>>,
                        Overwrite(<<0, 0, 0, 0, 0, 0, 0, 0>>, at,
                                  IF ~found THEN <<9, 9, 9, 9>>
                                  ELSE IF little THEN Reverse(Dummy) ELSE Dummy),
                        <<>>, little),
               AsmFile(regions, FALSE, "none", <<>>, 4, little),
               <<TextFunction(1, 8, <<Dummy>>)>>,
               MergeArgs("No", FALSE))

\* the dummy floats of two blocks with late rodata
Dummies == <<Dummy, <<224, 0, 0, 2>>, <<224, 0, 0, 3>>>>

\* the Function of the n-th block with late rodata and a jump table
LateFunction(n, size, dummies, jtbl_rodata_size) ==
    [TextFunction(n, size, dummies) EXCEPT !.jtbl_rodata_size = jtbl_rodata_size]

\* the stub's .rodata for two such blocks: padding, the dummy of the
\* first and the room of its jump table, then the two dummies of the
\* second, apart by a zero word if gap, and the room of its jump table
LateRodataOfStub(little, pad, jtbl1, gap, jtbl2) ==
    Repeat(0, pad)
      \o (IF little THEN Reverse(Dummies[1]) ELSE Dummies[1])
      \o Repeat(7, jtbl1)
      \o (IF little THEN Reverse(Dummies[2]) ELSE Dummies[2])
      \o (IF gap THEN Zeros ELSE <<>>)
      \o (IF little THEN Reverse(Dummies[3]) ELSE Dummies[3])
      \o Repeat(7, jtbl2)
      \o <<5, 5, 5, 5>>

\* two blocks with late rodata and jump tables
InitLateRodataTables ==
    \E little \in BOOLEAN, pad \in {0, 4}, jtbl1 \in {0, 4, 8},
       gap \in BOOLEAN, jtbl2 \in {0, 4} :
       \E regions \in {<<Region(0, 4), Region(4, 4)>>} :
          \E symtab \in {StubSymtab(0, FALSE, "none", regions)} :
             MergeStart(
               StubFile(symtab, 1, <<>>, <<>>,
                        LateRodataOfStub(little, pad, jtbl1, gap, jtbl2),
                        <<>>, little),
               AsmFile(regions, FALSE, "none", <<>>, 12 + jtbl1 + jtbl2, little),
               <<LateFunction(1, 4, <<Dummies[1]>>, jtbl1),
                 LateFunction(2, 4, <<Dummies[2], Dummies[3]>>, jtbl2)>>,
               MergeArgs("No", FALSE))

\* two blocks: the first with .data and .text, the second with .text and
\* late rodata
IfdefFunctions ==
    << [text_glabels |-> <<"func1">>,
        asm_conts |-> <<"instr1">>,
        late_rodata_dummy_bytes |-> <<>>,
        jtbl_rodata_size |-> 0,
        late_rodata_asm_conts |-> <<>>,
        data |-> [s \in Range(OUTPUT_SECTIONS) |->
                    CASE s = ".data" -> Sym("_asmpp_data1", 4)
                      [] s = ".text" -> Sym(TempName(1), 4)
                      [] OTHER -> Sym(NoName, 0)]],
       [TextFunction(2, 4, <<Dummy>>) EXCEPT !.asm_conts = <<"instr2">>] >>

\* the section names without .reginfo unless reginfo
WithReginfo(sections, reginfo) ==
    SelectSeq(sections, LAMBDA n : reginfo \/ n # ".reginfo")

\* the stub of the two blocks: d1, t1, t2 tell which temp symbols the
\* compiler left in it, dloc where the data of the first block is, loc2
\* where the second block is
IfdefStub(d1, t1, t2, dloc, loc2, reginfo, little) ==
    LET symtab ==
          <<NullSymbol>>
            \o (IF d1 THEN <<Symbol("_asmpp_data1", 2, dloc, STB_GLOBAL, STT_OBJECT)>>
                ELSE <<>>)
            \o (IF t1 THEN <<Symbol(TempName(1), 1, 0, STB_GLOBAL, STT_FUNC)>>
                ELSE <<>>)
            \o (IF t2 THEN <<Symbol(TempName(2), 1, loc2, STB_GLOBAL, STT_FUNC)>>
                ELSE <<>>)
    IN [sections |-> WithReginfo(StubSections, reginfo),
        data |-> [s \in {".text", ".data", ".rodata", ".sdata"}
                         \cup (IF reginfo THEN {".reginfo"} ELSE {}) |->
                   CASE s = ".text" -> Bytes(100, 4 * MaxTextWords)
                     [] s = ".data" -> Bytes(150, 8)
                     [] s = ".rodata" ->
                          (IF little THEN Reverse(Dummy) ELSE Dummy) \o <<5, 5, 5, 5>>
                     [] s = ".sdata" -> Bytes(170, 4)
                     [] OTHER -> <<{1, 2}, {}>>],
        symtab |-> [i \in DOMAIN symtab |-> to_bin(symtab[i])],
        sh_info |-> 1,
        reltabs |-> <<>>,
        mdebug |-> <<>>,
        little |-> little]

\* the object the assembler makes of the source written for the blocks
\* that were kept: their labels stand where the stub has the blocks
IfdefAsm(kept1, kept2, dloc, loc2, reginfo, little) ==
    LET sections == WithReginfo(AsmSections, reginfo)
        late == CHOOSE i \in DOMAIN sections : sections[i] = ".late_rodata"
        symtab ==
          <<NullSymbol>>
            \o (IF kept1
                THEN << Symbol("_asmpp_data1_asm_start", 2, dloc, STB_GLOBAL, 0),
                        Symbol(TempName(1) \o "_asm_start", 1, 0, STB_GLOBAL, 0),
                        Symbol("func1", 1, 0, STB_GLOBAL, 0),
                        Symbol("_asmpp_data1_asm_end", 2, dloc + 4, STB_GLOBAL, 0),
                        Symbol(TempName(1) \o "_asm_end", 1, 4, STB_GLOBAL, 0) >>
                ELSE <<>>)
            \o (IF kept2
                THEN << Symbol(TempName(2) \o "_asm_start", 1, loc2, STB_GLOBAL, 0),
                        Symbol("func2", 1, loc2, STB_GLOBAL, 0),
                        Symbol(TempName(2) \o "_asm_end", 1, loc2 + 4, STB_GLOBAL, 0),
                        Symbol("_asmpp_late_rodata_start", late, 8, STB_GLOBAL, 0),
                        Symbol("_asmpp_late_rodata_end", late, 12, STB_GLOBAL, 0) >>
                ELSE <<>>)
    IN [sections |-> sections,
        data |-> [s \in {".text", ".data", ".late_rodata"}
                         \cup (IF reginfo THEN {".reginfo"} ELSE {}) |->
                   CASE s = ".text" -> Bytes(200, 4 * MaxTextWords)
                     [] s = ".data" -> Bytes(230, 8)
                     [] s = ".late_rodata" ->
                          IF kept2 THEN <<0, 0, 0, 0, 0, 0, 0, 0>> \o Bytes(240, 4)
                          ELSE <<>>
                     [] OTHER -> <<{2, 3}, {4}>>],
        symtab |-> [i \in DOMAIN symtab |-> to_bin(symtab[i])],
        sh_info |-> 1,
        reltabs |-> <<>>,
        mdebug |-> <<>>,
        little |-> little]

\* blocks left out of the stub by the compiler, and objects with and
\* without .reginfo
InitIfdef ==
    \E d1 \in BOOLEAN, t1 \in BOOLEAN, t2 \in BOOLEAN,
       dloc \in {0, 4}, loc2 \in {0, 4, 8},
       sreginfo \in BOOLEAN, areginfo \in BOOLEAN, little \in BOOLEAN :
       MergeStart(
         IfdefStub(d1, t1, t2, dloc, loc2, sreginfo, little),
         IfdefAsm(d1 /\ t1, t2, dloc, loc2, areginfo, little),
         IfdefFunctions,
         MergeArgs("No", FALSE))

MergeInit ==
    \/ InitSymbols
    \/ InitRegions
    \/ InitStatics
    \/ InitLateRodata
    \/ InitLateRodataTables

\* no object is being merged
MergeIdle ==
    /\ disk = <<>>
    /\ stub = <<>>
    /\ asm_objfile = <<>>
    /\ functions = <<>>
    /\ margs = <<>>
    /\ merge = NoMerge
    /\ temp_dir = "none"

(***************************************************************************)
(* fixup_objfile, step by step                                             *)
(***************************************************************************)
\* Drop of TempDir: the directory and the files in it are removed
Drop(t) == IF t = "held" THEN "released" ELSE t

\* a TempDir that outlives the call
Leak(t, r) == temp_dir' = t

\* the binding `let temp_dir` (line 736) lives to the end of fixup_objfile:
\* a step that ends in r leaves the TempDir t alone when the function goes
\* on and drops it when the function returns an error or unwinds
Scope(t, r) == temp_dir' = IF r.err = "none" THEN t ELSE Drop(t)

MergeStep(r, next) ==
    /\ merge' = r
    /\ perr' = r.err
    /\ pc' = IF r.err = "none" THEN next ELSE "failed"
    /\ UNCHANGED <<opts, gstate, blk, fin, line_words, last_line>>
    /\ UNCHANGED parseVars

\* the object is read, the assembly source written and assembled, and the
\* assembled object read (lines 625-790); ok: the assembler's exit status
Assemble ==
    /\ pc = "assemble"
    /\ \E ok \in BOOLEAN :
         \E built \in {LateRodataSource(
                         CollectFunctions(functions, NewMerge(ElfFile_new(disk))))} :
            \E r \in {IF built.err = "none" /\ ~ok
                      THEN Fail(built, "Failed to assemble")
                      ELSE ReadAssembled(asm_objfile, margs.drop_mdebug_gptab, built)} :
               /\ MergeStep(r, "move")
               /\ Scope(IF built.err = "none" THEN "held" ELSE temp_dir, r)
    /\ UNCHANGED <<disk, stub, asm_objfile, functions, margs>>

\* lines 792-934
MoveSections ==
    /\ pc = "move"
    /\ \E wrap \in BOOLEAN :
         \E r \in {MoveLateRodata(asm_objfile, merge.objfile.little, wrap,
                     CopySections(asm_objfile, wrap, merge, OUTPUT_SECTIONS))} :
            MergeStep(r, "symbols") /\ Scope(temp_dir, r)
    /\ UNCHANGED <<disk, stub, asm_objfile, functions, margs>>

\* lines 936-1225
Symbols ==
    /\ pc = "symbols"
    /\ \E r \in {MergeSymbols(asm_objfile, margs.convert_statics,
                              margs.objfile_path, stub.mdebug, merge)} :
          MergeStep(r, "relocations") /\ Scope(temp_dir, r)
    /\ UNCHANGED <<disk, stub, asm_objfile, functions, margs>>

\* lines 1227-1312
Relocations ==
    /\ pc = "relocations"
    /\ \E r \in {MoveOverRelocations(asm_objfile,
                    FixupRelocations(merge, OUTPUT_SECTIONS),
                    INPUT_SECTION_NAMES)} :
          MergeStep(r, "write") /\ Scope(temp_dir, r)
    /\ UNCHANGED <<disk, stub, asm_objfile, functions, margs>>

\* lines 1314-1320
WriteObject ==
    /\ pc = "write"
    /\ disk' = ElfFile_write(merge.objfile)
    /\ temp_dir' = Drop(temp_dir)
    /\ pc' = "done"
    /\ UNCHANGED <<opts, gstate, blk, perr, fin, line_words, last_line>>
    /\ UNCHANGED parseVars
    /\ UNCHANGED <<stub, asm_objfile, functions, margs, merge>>

(***************************************************************************)
(* The object file as bytes: integers as binrw reads and writes them.      *)
(* A u32 that is only carried is kept as its word, the four bytes of its   *)
(* value with the least significant first; one that is computed with as a  *)
(* position or a length is kept as a number.                               *)
(***************************************************************************)
SHT_NULL == 0
SHT_SYMTAB == 2
SHT_STRTAB == 3
SHT_NOBITS == 8
SHT_MIPS_GPTAB == 1879048195
SHT_MIPS_DEBUG == 1879048197
SHF_LINK_ORDER == 128
SHN_XINDEX == 65535
EI_CLASS == 4
EI_DATA == 5
ElfHeader_SIZE == 52
SectionHeader_SIZE == 40
Hdrr_SIZE == 96
HDRR_MAGIC == 28681

ToWord(v) ==
    <<v % 256, (v \div 256) % 256, (v \div 65536) % 256, (v \div 16777216) % 256>>

FromWord(w) == w[1] + 256 * w[2] + 65536 * w[3] + 16777216 * w[4]

\* u32::wrapping_add over words
WrappingAdd(a, b) ==
    LET s1 == a[1] + b[1]
        s2 == a[2] + b[2] + (s1 \div 256)
        s3 == a[3] + b[3] + (s2 \div 256)
        s4 == a[4] + b[4] + (s3 \div 256)
    IN <<s1 % 256, s2 % 256, s3 % 256, s4 % 256>>

\* u32::wrapping_sub over words: a plus the two's complement of b
WrappingSub(a, b) ==
    WrappingAdd(WrappingAdd(a, [i \in 1..4 |-> 255 - b[i]]), ToWord(1))

\* the bytes of a word in the byte order of the file, and back
WordBytes(little, w) == IF little THEN w ELSE Reverse(w)
ReadWord(little, data, pos) == WordBytes(little, Slice(data, pos, 4))

\* u32 and u16 through read_options and write_options
WriteU32(little, v) == WordBytes(little, ToWord(v))
ReadU32(little, data, pos) == FromWord(ReadWord(little, data, pos))
WriteU16(little, v) ==
    IF little THEN <<v % 256, (v \div 256) % 256>>
    ELSE <<(v \div 256) % 256, v % 256>>
ReadU16(little, data, pos) ==
    IF little THEN data[pos + 1] + 256 * data[pos + 2]
    ELSE 256 * data[pos + 1] + data[pos + 2]

\* struct ElfHeader: the fields after e_ident, in order, with their widths
ElfHeaderFields ==
    << <<"e_type", 2>>, <<"e_machine", 2>>, <<"e_version", 4>>,
       <<"e_entry", 4>>, <<"e_phoff", 4>>, <<"e_shoff", 4>>, <<"e_flags", 4>>,
       <<"e_ehsize", 2>>, <<"e_phentsize", 2>>, <<"e_phnum", 2>>,
       <<"e_shentsize", 2>>, <<"e_shnum", 2>>, <<"e_shstrndx", 2>> >>

\* struct SectionHeader: ten u32
SectionHeaderFields ==
    <<"sh_name", "sh_type", "sh_flags", "sh_addr", "sh_offset", "sh_size",
      "sh_link", "sh_info", "sh_addralign", "sh_entsize">>

\* struct Hdrr: the u32 fields after magic and vstamp, in order
HdrrFields ==
    <<"iline_max", "cb_line", "cb_line_offset", "idn_max", "cb_dn_offset",
      "ipd_max", "cb_pd_offset", "isym_max", "cb_sym_offset", "iopt_max",
      "cb_opt_offset", "iaux_max", "cb_aux_offset", "iss_max", "cb_ss_offset",
      "iss_ext_max", "cb_ss_ext_offset", "ifd_max", "cb_fd_offset", "crfd",
      "cb_rfd_offset", "iext_max", "cb_ext_offset">>

\* where a field of a struct starts, the fields before it laid out in order
RECURSIVE FieldOffset(_, _)
FieldOffset(fields, i) ==
    IF i = 1 THEN 0 ELSE FieldOffset(fields, i - 1) + fields[i - 1][2]

IndexOf(names, n) == CHOOSE i \in DOMAIN names : names[i] = n

\* ElfHeader::read_options: e_ident, then every field in the byte order
ElfHeader_read(data, little) ==
    [n \in {"e_ident"} \cup {ElfHeaderFields[i][1] : i \in DOMAIN ElfHeaderFields} |->
       IF n = "e_ident" THEN Slice(data, 0, 16)
       ELSE LET i == CHOOSE i \in DOMAIN ElfHeaderFields : ElfHeaderFields[i][1] = n
                at == 16 + FieldOffset(ElfHeaderFields, i)
            IN IF ElfHeaderFields[i][2] = 2 THEN ReadU16(little, data, at)
               ELSE ReadU32(little, data, at)]

\* ElfHeader::new: the header, or the assertion that failed
ElfHeader_new(data, little) ==
    LET header == ElfHeader_read(data, little)
    IN [header |-> header,
        err |-> IF header.e_ident[EI_CLASS + 1] # 1 THEN "panic: ELF must be 32-bit"
                ELSE IF header.e_type # 1 THEN "panic: ELF must be relocatable"
                ELSE IF header.e_machine # 8 THEN "panic: ELF must be MIPS 1"
                ELSE IF header.e_phoff # 0
                THEN "panic: ELF must not have program headers"
                ELSE IF header.e_shoff = 0 THEN "panic: ELF must have section headers"
                ELSE IF header.e_shstrndx = SHN_UNDEF
                THEN "panic: ELF must have a section header string table"
                ELSE "none"]

\* ElfHeader::to_bin
ElfHeader_to_bin(header, little) ==
    header.e_ident
      \o Flatten([i \in DOMAIN ElfHeaderFields |->
           IF ElfHeaderFields[i][2] = 2
           THEN WriteU16(little, header[ElfHeaderFields[i][1]])
           ELSE WriteU32(little, header[ElfHeaderFields[i][1]])])

\* SectionHeader::read_options
SectionHeader_read(data, pos, little) ==
    [n \in Range(SectionHeaderFields) |->
       ReadU32(little, data, pos + 4 * (IndexOf(SectionHeaderFields, n) - 1))]

\* SectionHeader::write_options
SectionHeader_write(header, little) ==
    Flatten([i \in DOMAIN SectionHeaderFields |->
               WriteU32(little, header[SectionHeaderFields[i]])])

\* Section::new: the header at pos of the file and the bytes it designates
Section_new(file, pos, index, little) ==
    LET header == SectionHeader_read(file, pos, little)
    IN [header |-> header,
        data |-> IF header.sh_type = SHT_NOBITS THEN <<>>
                 ELSE Slice(file, header.sh_offset, header.sh_size),
        index |-> index,
        err |-> IF (header.sh_flags \div SHF_LINK_ORDER) % 2 # 0
                THEN "panic: sh_flags & SHF_LINK_ORDER"
                ELSE IF header.sh_entsize # 0
                        /\ header.sh_size % header.sh_entsize # 0
                THEN "panic: sh_size % sh_entsize"
                ELSE IF header.sh_type # SHT_NOBITS
                        /\ header.sh_offset + header.sh_size > Len(file)
                THEN "panic: range end index out of range"
                ELSE "none"]

\* Section::header_to_bin: sh_size is set from the data first
SizedHeader(s) ==
    IF s.header.sh_type # SHT_NOBITS
    THEN [s EXCEPT !.header.sh_size = Len(s.data)] ELSE s

header_to_bin(s, little) == SectionHeader_write(SizedHeader(s).header, little)

\* Hdrr::read_options: magic and vstamp as numbers, the u32 fields as words
Hdrr_read(data, little) ==
    [n \in {"magic", "vstamp"} \cup Range(HdrrFields) |->
       CASE n = "magic" -> ReadU16(little, data, 0)
         [] n = "vstamp" -> ReadU16(little, data, 2)
         [] OTHER -> ReadWord(little, data, 4 * IndexOf(HdrrFields, n))]

\* Hdrr::write_options
Hdrr_write(hdrr, little) ==
    WriteU16(little, hdrr.magic) \o WriteU16(little, hdrr.vstamp)
      \o Flatten([i \in DOMAIN HdrrFields |-> WordBytes(little, hdrr[HdrrFields[i]])])

\* the calls of relocate (lines 421-431): the count and the offset it moves
RelocatedFields ==
    << <<"cb_line", "cb_line_offset">>, <<"idn_max", "cb_dn_offset">>,
       <<"ipd_max", "cb_pd_offset">>, <<"isym_max", "cb_sym_offset">>,
       <<"iopt_max", "cb_opt_offset">>, <<"iaux_max", "cb_aux_offset">>,
       <<"iss_max", "cb_ss_offset">>, <<"iss_ext_max", "cb_ss_ext_offset">>,
       <<"ifd_max", "cb_fd_offset">>, <<"crfd", "cb_rfd_offset">>,
       <<"iext_max", "cb_ext_offset">> >>

\* the closure with the test of the count left out
relocate_always(a, b, shift_by) == WrappingAdd(b, shift_by)

\* the closure relocate of relocate_mdebug
relocate(a, b, shift_by) == IF a # Zeros THEN WrappingAdd(b, shift_by) ELSE b

\* the header record with every call of relocate applied
Relocated(hdrr, shift_by) ==
    [n \in DOMAIN hdrr |->
       IF \E p \in Range(RelocatedFields) : p[2] = n
       THEN LET p == CHOOSE p \in Range(RelocatedFields) : p[2] = n
            IN relocate(hdrr[p[1]], hdrr[n], shift_by)
       ELSE hdrr[n]]

\* Section::relocate_mdebug, the section's sh_offset being the new one
relocate_mdebug(s, original_offset, little) ==
    IF Len(s.data) < Hdrr_SIZE
    THEN [s EXCEPT !.err = "panic: called unwrap on Err (Hdrr)"]
    ELSE LET hdrr == Hdrr_read(s.data, little)
             shift_by == WrappingSub(ToWord(s.header.sh_offset),
                                     ToWord(original_offset))
         IN IF hdrr.magic # HDRR_MAGIC
            THEN [s EXCEPT !.err = "panic: assertion failed (magic)"]
            ELSE [s EXCEPT !.data = Hdrr_write(Relocated(hdrr, shift_by), little)]

\* struct SymbolData through write_options and read_options
SymbolData_write(d, little) ==
    WriteU32(little, d.st_name) \o WriteU32(little, d.st_value)
      \o WriteU32(little, d.st_size) \o <<d.st_info, d.st_other>>
      \o WriteU16(little, d.st_shndx)

SymbolData_read(data, little) ==
    [st_name |-> ReadU32(little, data, 0), st_value |-> ReadU32(little, data, 4),
     st_size |-> ReadU32(little, data, 8), st_info |-> data[13],
     st_other |-> data[14], st_shndx |-> ReadU16(little, data, 14)]

\* the SymbolData that Symbol::to_bin makes of a symbol (lines 155-162)
SymbolData(s) ==
    [st_name |-> s.st_name, st_value |-> s.st_value, st_size |-> s.st_size,
     st_info |-> ((s.st_bind * 16) % 256) + s.st_type,
     st_other |-> s.st_visibility, st_shndx |-> s.st_shndx % 65536]

\* Symbol::to_bin down to the bytes: write_options with Endian::Big
SymbolBytes(s) == SymbolData_write(SymbolData(s), FALSE)

\* Symbol::new down to the bytes, the name apart
SymbolOfBytes(data, little) ==
    LET d == SymbolData_read(data, little)
    IN [st_name |-> d.st_name, st_value |-> d.st_value, st_size |-> d.st_size,
        st_shndx |-> d.st_shndx, st_type |-> d.st_info % 16,
        st_bind |-> d.st_info \div 16, st_visibility |-> d.st_other % 4,
        err |-> IF d.st_shndx = SHN_XINDEX
                THEN "panic: too many sections (SHN_XINDEX not supported)"
                ELSE "none"]

\* Section::lookup_str finds a string at index: there is a zero byte at
\* or after it
HasStr(strtab, index) ==
    /\ strtab.header.sh_type = SHT_STRTAB
    /\ \E j \in (index + 1)..Len(strtab.data) : strtab.data[j] = 0

\* Section::init_symbols does not panic: every entry is read and its name
\* looked up
SymbolsRead(symtab, strtab, little) ==
    /\ symtab.header.sh_entsize = 16
    /\ \A i \in 0..((Len(symtab.data) \div 16) - 1) :
          LET y == SymbolOfBytes(Slice(symtab.data, 16 * i, 16), little)
          IN y.err = "none" /\ HasStr(strtab, y.st_name)

\* ElfFile::new: the byte order, the header and every section with its
\* bytes; the names and the symbols are looked up and dropped, write
\* using none of them
ParseFile(data) ==
    LET little == data[EI_DATA + 1] = 1
        h == ElfHeader_new(Slice(data, 0, ElfHeader_SIZE), little)
        offset == h.header.e_shoff
        size == h.header.e_shentsize
        null_section == Section_new(data, offset, 0, little)
        num_sections == IF h.header.e_shnum = 0 THEN null_section.header.sh_size
                        ELSE h.header.e_shnum
        sections == [i \in 1..num_sections |->
                       Section_new(data, offset + (i - 1) * size, i - 1, little)]
        symtabs == {i \in DOMAIN sections : sections[i].header.sh_type = SHT_SYMTAB}
        symtab == IF symtabs = {} THEN 0
                  ELSE CHOOSE i \in symtabs : \A j \in symtabs : i <= j
    IN [err |-> IF Slice(data, 0, 4) # <<127, 69, 76, 70>>
                THEN "panic: assertion failed (magic number)"
                ELSE IF data[EI_DATA + 1] \notin {1, 2}
                THEN "panic: Invalid ELF endianness"
                ELSE IF h.err # "none" THEN h.err
                ELSE IF \E i \in DOMAIN sections : sections[i].err # "none"
                THEN "panic: called unwrap on Err (Section)"
                ELSE IF symtabs = {} THEN "panic: called unwrap on None (symtab)"
                ELSE IF h.header.e_shstrndx + 1 \notin DOMAIN sections
                        \/ sections[symtab].header.sh_link + 1 \notin DOMAIN sections
                THEN "panic: index out of bounds"
                ELSE IF \E i \in DOMAIN sections :
                          ~HasStr(sections[h.header.e_shstrndx + 1],
                                  sections[i].header.sh_name)
                THEN "panic: called unwrap on None (lookup_str)"
                ELSE IF ~SymbolsRead(sections[symtab],
                                     sections[sections[symtab].header.sh_link + 1],
                                     little)
                THEN "panic: called unwrap on None (init_symbols)"
                ELSE "none",
        little |-> little,
        header |-> h.header,
        sections |-> sections,
        symtab |-> symtab]

\* nothing is written for padding
pad_none(out, alignment) == out

\* ElfFile::pad_out: out is what has been written, its length the position
pad_out(out, alignment) ==
    IF alignment > 0 /\ Len(out) % alignment # 0
    THEN out \o Repeat(0, alignment - (Len(out) % alignment))
    ELSE out

\* one turn of the loop over the sections (lines 581-592)
WriteSection(w, s, little) ==
    IF w.err # "none" THEN w
    ELSE IF s.header.sh_type \in {SHT_NOBITS, SHT_NULL}
    THEN [w EXCEPT !.sections = Append(@, s)]
    ELSE LET padded == pad_out(w.out, s.header.sh_addralign)
             old_offset == s.header.sh_offset
             placed == [s EXCEPT !.header.sh_offset = Len(padded)]
             moved == IF s.header.sh_type = SHT_MIPS_DEBUG
                         /\ Len(padded) # old_offset
                      THEN relocate_mdebug(placed, old_offset, little)
                      ELSE placed
         IN [out |-> IF moved.err = "none" THEN padded \o moved.data ELSE padded,
             sections |-> Append(w.sections, moved),
             err |-> moved.err]

RECURSIVE WriteSections(_, _, _)
WriteSections(w, ss, little) ==
    IF ss = <<>> THEN w
    ELSE LET next == CHOOSE r \in {WriteSection(w, Head(ss), little)} : TRUE
         IN WriteSections(next, Tail(ss), little)

\* ElfFile::write: out is what the writer was given, elf the object
\* afterwards; with err, out is what was written before the failure
write(elf) ==
    LET first == [elf.header EXCEPT !.e_shnum = Len(elf.sections) % 65536]
        w == WriteSections([out |-> ElfHeader_to_bin(first, elf.little),
                            sections |-> <<>>, err |-> "none"],
                           elf.sections, elf.little)
        padded == pad_out(w.out, 4)
        header == [first EXCEPT !.e_shoff = Len(padded)]
        sized == [i \in DOMAIN w.sections |-> SizedHeader(w.sections[i])]
        headers == Flatten([i \in DOMAIN sized |->
                              SectionHeader_write(sized[i].header, elf.little)])
    IN IF w.err # "none" THEN [err |-> w.err, out |-> w.out, elf |-> elf]
       ELSE [err |-> "none",
             out |-> Overwrite(padded \o headers, 0,
                               ElfHeader_to_bin(header, elf.little)),
             elf |-> [elf EXCEPT !.header = header, !.sections = sized]]

\* ElfFile::drop_mdebug_gptab over the parsed sections
RECURSIVE DropTrailing(_)
DropTrailing(sections) ==
    IF sections # <<>>
       /\ sections[Len(sections)].header.sh_type \in {SHT_MIPS_DEBUG, SHT_MIPS_GPTAB}
    THEN DropTrailing(SubSeq(sections, 1, Len(sections) - 1))
    ELSE sections

(***************************************************************************)
(* The object files the byte-level steps are run on                        *)
(***************************************************************************)
\* a symbol by its numbers; st_name is an offset into the string table
NumSymbol(st_name, value, shndx, bind, type) ==
    [st_name |-> st_name, st_value |-> value, st_size |-> 0, st_shndx |-> shndx,
     st_type |-> type, st_bind |-> bind, st_visibility |-> 0]

\* the null entry and n functions of .text
SymbolList(n) ==
    <<NumSymbol(0, 0, SHN_UNDEF, STB_LOCAL, 0)>>
      \o [i \in 1..n |-> NumSymbol(1, 260 * i, 1, STB_GLOBAL, STT_FUNC)]

\* the HDRR of a .mdebug at md_off: the counts that are not zero are those
\* of nonzero, and cb_ext_offset is near the top of u32 if high
HdrrOf(magic, md_off, nonzero, high) ==
    [n \in {"magic", "vstamp"} \cup Range(HdrrFields) |->
       CASE n = "magic" -> magic
         [] n = "vstamp" -> 779
         [] n = "iline_max" -> ToWord(3)
         [] n = "cb_ext_offset" /\ high -> <<252, 255, 255, 255>>
         [] \E p \in Range(RelocatedFields) : p[1] = n ->
              IF n \in nonzero THEN ToWord(2) ELSE Zeros
         [] OTHER -> ToWord(md_off + Hdrr_SIZE)]

CountChoices ==
    { {}, {RelocatedFields[i][1] : i \in DOMAIN RelocatedFields},
      {"cb_line", "ipd_max", "iext_max"} }

\* what the stub has for .mdebug: none, one with tables after its HDRR,
\* one whose HDRR has another magic, one shorter than a HDRR
MdebugChoices ==
    {[kind |-> "none", nonzero |-> {}, high |-> FALSE],
     [kind |-> "magic", nonzero |-> {}, high |-> FALSE],
     [kind |-> "short", nonzero |-> {}, high |-> FALSE]}
    \cup {[kind |-> "tables", nonzero |-> c, high |-> h] :
            c \in CountChoices, h \in BOOLEAN}

MdebugData(md, md_off, little) ==
    CASE md.kind = "none" -> <<>>
      [] md.kind = "short" -> <<112, 9, 3, 11, 0, 0, 0, 3>>
      [] md.kind = "magic" ->
           Hdrr_write(HdrrOf(0, md_off, md.nonzero, md.high), little)
      [] OTHER ->
           Hdrr_write(HdrrOf(HDRR_MAGIC, md_off, md.nonzero, md.high), little)
             \o <<11, 12, 13, 14>>

SectionHeader(sh_type, sh_offset, sh_size, sh_link, sh_info, sh_addralign, sh_entsize) ==
    [sh_name |-> 1, sh_type |-> sh_type, sh_flags |-> 0, sh_addr |-> 0,
     sh_offset |-> sh_offset, sh_size |-> sh_size, sh_link |-> sh_link,
     sh_info |-> sh_info, sh_addralign |-> sh_addralign, sh_entsize |-> sh_entsize]

\* the stub as the compiler lays it out: .text, .bss, .symtab, a string
\* table and .mdebug, the section headers before the sections if
\* heads_first and after them otherwise, gap more bytes before .mdebug
StubImage(little, heads_first, gap, nsyms, md) ==
    LET n == IF md.kind = "none" THEN 5 ELSE 6
        heads == IF heads_first THEN n * SectionHeader_SIZE ELSE 0
        text_off == AlignUp(ElfHeader_SIZE + heads, 8)
        symtab == Flatten([i \in 1..(nsyms + 1) |->
                     SymbolData_write(SymbolData(SymbolList(nsyms)[i]), little)])
        symtab_off == text_off + 4
        strtab_off == symtab_off + Len(symtab)
        md_off == AlignUp(strtab_off + 3, 4) + gap
        mdebug == MdebugData(md, md_off, little)
        end == IF md.kind = "none" THEN strtab_off + 3 ELSE md_off + Len(mdebug)
        e_shoff == IF heads_first THEN ElfHeader_SIZE ELSE AlignUp(end, 4)
        header == [e_ident |-> <<127, 69, 76, 70, 1, IF little THEN 1 ELSE 2,
                                 1, 0, 0, 0, 0, 0, 0, 0, 0, 0>>,
                   e_type |-> 1, e_machine |-> 8, e_version |-> 1, e_entry |-> 0,
                   e_phoff |-> 0, e_shoff |-> e_shoff, e_flags |-> 0,
                   e_ehsize |-> ElfHeader_SIZE, e_phentsize |-> 0, e_phnum |-> 0,
                   e_shentsize |-> SectionHeader_SIZE, e_shnum |-> n,
                   e_shstrndx |-> 4]
        all == << SectionHeader(SHT_NULL, 0, 0, 0, 0, 0, 0),
                  SectionHeader(1, text_off, 4, 0, 0, 8, 0),
                  SectionHeader(SHT_NOBITS, symtab_off, 8, 0, 0, 4, 0),
                  SectionHeader(SHT_SYMTAB, symtab_off, Len(symtab), 4, 1, 4, 16),
                  SectionHeader(SHT_STRTAB, strtab_off, 3, 0, 0, 1, 0),
                  SectionHeader(SHT_MIPS_DEBUG, md_off, Len(mdebug), 0, 0, 4, 0) >>
        headers == Flatten([i \in 1..n |-> SectionHeader_write(all[i], little)])
    IN ElfHeader_to_bin(header, little)
         \o (IF heads_first THEN headers ELSE <<>>)
         \o Repeat(0, text_off - (ElfHeader_SIZE + heads))
         \o <<1, 2, 3, 4>> \o symtab \o <<0, 102, 0>>
         \o (IF md.kind = "none" THEN <<>>
             ELSE Repeat(0, md_off - (strtab_off + 3)) \o mdebug)
         \o (IF heads_first THEN <<>> ELSE Repeat(0, e_shoff - end) \o headers)

WriteInit ==
    \E little \in BOOLEAN, heads_first \in BOOLEAN, gap \in {0, 4},
       nsyms \in 1..MaxNewSyms, md \in MdebugChoices, drop \in BOOLEAN :
       /\ disk = StubImage(little, heads_first, gap, nsyms, md)
       /\ stub = disk
       /\ asm_objfile = <<>>
       /\ functions = <<>>
       /\ margs = MergeArgs("No", drop)
       /\ merge = NoMerge
       /\ temp_dir = "none"

(***************************************************************************)
(* fixup_objfile as the bytes of the object file see it                    *)
(***************************************************************************)
\* what these steps leave alone
WriteFrame ==
    /\ UNCHANGED <<opts, gstate, blk, fin, line_words, last_line>>
    /\ UNCHANGED parseVars
    /\ UNCHANGED <<stub, functions, margs>>

\* the object is read and its trailing debug sections dropped
\* (lines 625-626 and 775-778)
ReadObject ==
    /\ pc = "read"
    /\ \E elf \in {ParseFile(disk)} :
         /\ merge' = [err |-> elf.err,
                      objfile |-> IF elf.err = "none" /\ margs.drop_mdebug_gptab
                                  THEN [elf EXCEPT !.sections = DropTrailing(@)]
                                  ELSE elf,
                      new_syms |-> <<>>,
                      before |-> <<>>,
                      again |-> <<>>]
         /\ perr' = elf.err
         /\ pc' = IF elf.err = "none" THEN "rebuild" ELSE "failed"
         /\ temp_dir' = IF elf.err = "none" THEN "held" ELSE temp_dir
    /\ UNCHANGED <<disk, asm_objfile>>
    /\ WriteFrame

\* the symbol table is rebuilt from new_syms (lines 1207-1225)
RebuildSymtab ==
    /\ pc = "rebuild"
    /\ \E n \in 0..MaxNewSyms :
         \E new_syms \in {SymbolList(n)} :
            merge' = [merge EXCEPT
               !.new_syms = new_syms,
               !.objfile.sections[merge.objfile.symtab].data =
                   Flatten([i \in DOMAIN new_syms |-> SymbolBytes(new_syms[i])]),
               !.objfile.sections[merge.objfile.symtab].header.sh_info =
                   Cardinality({i \in DOMAIN new_syms :
                                  new_syms[i].st_bind = STB_LOCAL})]
    /\ pc' = "emit"
    /\ UNCHANGED <<disk, asm_objfile, perr, temp_dir>>
    /\ WriteFrame

\* File::create empties the file and write fills it (lines 1314-1316); a
\* panic inside write leaves what the writer's buffer held when it was
\* dropped, or nothing where a panic aborts
EmitObject ==
    /\ pc = "emit"
    /\ \E r \in {write(merge.objfile)} :
         /\ merge' = [merge EXCEPT !.err = r.err, !.objfile = r.elf,
                                   !.before = merge.objfile]
         /\ perr' = r.err
         /\ pc' = IF r.err = "none" THEN "written" ELSE "failed"
         /\ disk' \in (IF r.err = "none" THEN {r.out} ELSE {<<>>, r.out})
    /\ temp_dir' = Drop(temp_dir)
    /\ UNCHANGED asm_objfile
    /\ WriteFrame

\* the written file is parsed and written again
Reread ==
    /\ pc = "written"
    /\ \E elf \in {ParseFile(disk)} :
         merge' = [merge EXCEPT !.again =
                      IF elf.err = "none" THEN write(elf)
                      ELSE [err |-> elf.err, out |-> <<>>, elf |-> elf]]
    /\ pc' = "rewritten"
    /\ UNCHANGED <<disk, asm_objfile, perr, temp_dir>>
    /\ WriteFrame


(***************************************************************************)
(* Specifications                                                          *)
(***************************************************************************)
vars == <<preVars, parseVars, mergeVars>>

\* blocks fed lines and finished
Init == PreInit /\ pc = "lines" /\ ParseInit /\ MergeIdle
Next == BlockLine \/ BlockFinish
Spec == Init /\ [][Next]_vars

\* the size accounting of every directive
InitLines ==
    /\ Init
    /\ opts = Options(Args("O2", FALSE, FALSE, FALSE, FALSE, FALSE))
NextLines == DirectiveLine
SpecLines == InitLines /\ [][NextLines]_vars

\* fixup_objfile over a stub object and an assembled object
InitMerge ==
    /\ PreInit
    /\ opts = Options(Args("O2", FALSE, FALSE, FALSE, FALSE, FALSE))
    /\ pc = "assemble"
    /\ ParseInit
    /\ MergeInit
NextMerge == Assemble \/ MoveSections \/ Symbols \/ Relocations \/ WriteObject
SpecMerge == InitMerge /\ [][NextMerge]_vars

\* fixup_objfile over stubs that lack blocks or .reginfo
InitSkip ==
    /\ PreInit
    /\ opts = Options(Args("O2", FALSE, FALSE, FALSE, FALSE, FALSE))
    /\ pc = "assemble"
    /\ ParseInit
    /\ InitIfdef
NextSkip == NextMerge
SpecSkip == InitSkip /\ [][NextSkip]_vars

\* the symbols between the FILE and the END of a file descriptor: up to
\* len records drawn from alphabet
RECURSIVE MdSyms(_, _)
MdSyms(alphabet, len) ==
    IF len = 0 THEN {<<>>}
    ELSE MdSyms(alphabet, len - 1)
           \cup {Append(r, y) :
                   r \in {x \in MdSyms(alphabet, len - 1) : Len(x) = len - 1},
                   y \in alphabet}

\* the kinds of .mdebug symbol beside the statics and END; 1 is a kind the
\* walk does nothing for
OtherKinds ==
    {MIPS_DEBUG_ST_FILE, MIPS_DEBUG_ST_STRUCT, MIPS_DEBUG_ST_UNION,
     MIPS_DEBUG_ST_ENUM, MIPS_DEBUG_ST_BLOCK, MIPS_DEBUG_ST_PROC, 1}

\* the storage classes of the statics: the four that have a section, and
\* scSData (13) and scNil (0) that have none
StorageClasses == {1, 2, 3, 15, 13, 0}

\* a second file descriptor, with one static in a function
SecondFile ==
    << MdSym(MIPS_DEBUG_ST_FILE, 1, "b.c", 0),
       MdSym(MIPS_DEBUG_ST_STATIC_PROC, 1, "sfn2", 4),
       MdSym(MIPS_DEBUG_ST_STATIC, 3, "s", 8),
       MdSym(MIPS_DEBUG_ST_END, 1, "sfn2", 0),
       MdSym(MIPS_DEBUG_ST_END, 1, "b.c", 0) >>

\* the stub with the file descriptors fds in its .mdebug, and one block
StaticsStart(fds, cs) ==
    \E regions \in {<<Region(4, 8)>>} :
       MergeStart(
         StubFile(StubSymtab(0, FALSE, "none", regions), 1, <<>>, <<>>,
                  Bytes(180, 8), fds, FALSE),
         AsmFile(regions, FALSE, "none", <<>>, 0, FALSE),
         Functions(regions),
         MergeArgs(cs, FALSE))

\* file descriptors whose symbols open and close scopes in every order
InitScopes ==
    \E kind \in OtherKinds, second \in BOOLEAN, cs \in {"Local", "Global"} :
       \E body \in MdSyms({MdSym(MIPS_DEBUG_ST_STATIC_PROC, 1, "sfn", 0),
                           MdSym(kind, 1, "x", 0),
                           MdSym(MIPS_DEBUG_ST_END, 1, "", 0),
                           MdSym(MIPS_DEBUG_ST_STATIC, 2, "s", 4)},
                          MaxMdSyms) :
          StaticsStart(
            << <<MdSym(MIPS_DEBUG_ST_FILE, 1, "a.c", 0)>> \o body
                 \o <<MdSym(MIPS_DEBUG_ST_END, 1, "a.c", 0)>> >>
              \o (IF second THEN <<SecondFile>> ELSE <<>>),
            cs)

\* statics of every storage class, at file level and in a function, under
\* every conversion
InitClasses ==
    \E sc1 \in StorageClasses, sc2 \in StorageClasses, cs \in SymbolVisibility,
       proc \in {MIPS_DEBUG_ST_STATIC_PROC, MIPS_DEBUG_ST_PROC} :
       StaticsStart(
         << << MdSym(MIPS_DEBUG_ST_FILE, 1, "a.c", 0),
               MdSym(MIPS_DEBUG_ST_STATIC, sc1, "s", 4),
               MdSym(proc, 1, "sfn", 0),
               MdSym(MIPS_DEBUG_ST_STATIC, sc2, "t", 8),
               MdSym(MIPS_DEBUG_ST_END, 1, "sfn", 0),
               MdSym(MIPS_DEBUG_ST_END, 1, "a.c", 0) >> >>,
         cs)

\* fixup_objfile over stubs with statics in .mdebug
InitStaticsWalk ==
    /\ PreInit
    /\ opts = Options(Args("O2", FALSE, FALSE, FALSE, FALSE, FALSE))
    /\ pc = "assemble"
    /\ ParseInit
    /\ (InitScopes \/ InitClasses)
NextStaticsWalk == NextMerge
SpecStaticsWalk == InitStaticsWalk /\ [][NextStaticsWalk]_vars

\* parse_source over a source file
InitParse ==
    /\ PreInit
    /\ opts = Options(Args("O2", FALSE, FALSE, FALSE, FALSE, FALSE))
    /\ pc = "reading"
    /\ ParseInit
    /\ MergeIdle
NextParse == ReadLine \/ EndOfFile
SpecParse == InitParse /\ [][NextParse]_vars

\* the numbers of .text slots and of late rodata words of the long blocks
SlotCounts == {99, 100, 101, 102, 103, 104, 105, 130, 205, 210}
LateWords == {0, 1, 2, 34, 40}

\* a block of n slots of .text on one line and w words of late rodata
LongBlock(n, w) ==
    ProcessLines(NewBlock,
       <<L("glabel", 0), L("space", 4 * n)>>
         \o (IF w = 0 THEN <<>> ELSE <<Sec("LateRodata"), L("word", w)>>))

\* finish over blocks long enough to be split into several functions
InitSplit ==
    /\ opts \in {Options(a) : a \in ArgChoices}
    /\ gstate = NewGlobalState
    /\ blk \in {LongBlock(n, w) : n \in SlotCounts, w \in LateWords}
    /\ perr = "none"
    /\ fin = NoFin
    /\ line_words = <<>>
    /\ last_line = <<>>
    /\ pc = "lines"
    /\ ParseInit
    /\ MergeIdle
NextSplit == BlockFinish
SpecSplit == InitSplit /\ [][NextSplit]_vars

\* the numbers of .text slots of the blocks with late rodata, and the lines
\* of their .late_rodata section
TextSlots == {2, 4, 12, 13, 14, 15, 22, 40}
LateLines ==
    { L("word", 1), L("word", 2), L("word", 6), L("double", 1),
      L("late_rodata_alignment", 4), L("late_rodata_alignment", 8),
      L("late_rodata_alignment", 2) }

\* a block of n slots of .text that goes on in .late_rodata
TextBlock(n) ==
    ProcessLines(NewBlock, <<L("glabel", 0), L("space", 4 * n), Sec("LateRodata")>>)

\* process_line on a line of .late_rodata
LateLine ==
    /\ pc = "lines"
    /\ Len(line_words) < MaxLateLines
    /\ \E l \in LateLines : Feed(l)

\* finish over blocks with late rodata
InitLate ==
    /\ opts \in {Options(a) : a \in ArgChoices}
    /\ gstate = NewGlobalState
    /\ blk \in {TextBlock(n) : n \in TextSlots}
    /\ perr = "none"
    /\ fin = NoFin
    /\ line_words = <<>>
    /\ last_line = <<>>
    /\ pc = "lines"
    /\ ParseInit
    /\ MergeIdle
NextLate == LateLine \/ BlockFinish
SpecLate == InitLate /\ [][NextLate]_vars

(***************************************************************************)
(* A block with late rodata from process_line to fixup_objfile.  The       *)
(* compiler and the assembler stand between the two: Compile gives the     *)
(* objects they make of the block.                                         *)
(***************************************************************************)
JtblSlots == {12, 13, 14, 15}
JtblLines ==
    { L("word", 1), L("word", 5), L("word", 6), L("late_rodata_alignment", 8) }
JtblArgs ==
    { Args("O2", FALSE, FALSE, FALSE, FALSE, FALSE),
      Args("O2", TRUE, FALSE, FALSE, FALSE, FALSE),
      Args("O1", FALSE, TRUE, FALSE, FALSE, FALSE),
      Args("O2", FALSE, FALSE, FALSE, TRUE, FALSE) }

\* the four bytes of the h-th dummy float
DummyBytes(h) == <<224, 0, 0, h>>

\* the Function of the finished block
JtblFunction ==
    LateFunction(1, fin.fn.data["Text"].size,
                 [i \in DOMAIN fin.fn.late_rodata_dummy_bytes |->
                    DummyBytes(fin.fn.late_rodata_dummy_bytes[i])],
                 fin.fn.jtbl_rodata_size)

\* the stub's .rodata for the block: pad bytes, the dummy floats, the jump
\* table of the switch, and a word of other data
JtblRodata(little, pad) ==
    Repeat(0, pad)
      \o Flatten([i \in DOMAIN JtblFunction.late_rodata_dummy_bytes |->
                    IF little THEN Reverse(JtblFunction.late_rodata_dummy_bytes[i])
                    ELSE JtblFunction.late_rodata_dummy_bytes[i]])
      \o Repeat(7, JtblFunction.jtbl_rodata_size)
      \o <<5, 5, 5, 5>>

\* entries of the stub's .rel.rodata: none, one at every word of .rodata,
\* or one at every other word, each naming the section symbol of .text
JtblRelocs(rodata) ==
    LET words == [i \in 1..(Len(rodata) \div 4) |-> [off |-> 4 * (i - 1), sym |-> 1]]
    IN {<<>>, words, SelectSeq(words, LAMBDA e : e.off % 8 = 4)}

JtblStub(little, pad, rels) ==
    LET regions == <<Region(0, JtblFunction.data[".text"].size)>>
        symtab == StubSymtab(1, FALSE, "none", regions)
    IN [StubFile(symtab, 2, <<>>, <<>>, JtblRodata(little, pad), <<>>, little)
          EXCEPT !.data[".text"] = Bytes(100, JtblFunction.data[".text"].size),
                 !.reltabs = Tables(".rel.rodata", 3, Entries("stub", symtab, rels))]

\* the assembler gives the lines of .late_rodata the sizes process_line
\* counted for them
JtblAsm(little) ==
    AsmFile(<<Region(0, JtblFunction.data[".text"].size)>>, FALSE, "none", <<>>,
            blk.fn_section_sizes["LateRodata"],
            little)

\* process_line on a line of .late_rodata
JtblLine ==
    /\ pc = "lines"
    /\ Len(line_words) < MaxLateLines
    /\ \E l \in JtblLines : Feed(l)

\* the output is compiled and the assembly of the block assembled
Compile ==
    /\ pc = "finished"
    /\ fin.fn.late_rodata_dummy_bytes # <<>>
    /\ \E little \in BOOLEAN, pad \in {0, 4} :
         \E rels \in JtblRelocs(JtblRodata(little, pad)) :
            /\ disk' = JtblStub(little, pad, rels)
            /\ stub' = ElfFile_new(JtblStub(little, pad, rels))
            /\ asm_objfile' = ElfFile_new(JtblAsm(little))
    /\ functions' = <<JtblFunction>>
    /\ margs' = MergeArgs("No", FALSE)
    /\ merge' = NoMerge
    /\ pc' = "assemble"
    /\ UNCHANGED temp_dir
    /\ UNCHANGED <<opts, gstate, blk, perr, fin, line_words, last_line>>
    /\ UNCHANGED parseVars

InitJtbl ==
    /\ opts \in {Options(a) : a \in JtblArgs}
    /\ gstate = NewGlobalState
    /\ blk \in {TextBlock(n) : n \in JtblSlots}
    /\ perr = "none"
    /\ fin = NoFin
    /\ line_words = <<>>
    /\ last_line = <<>>
    /\ pc = "lines"
    /\ ParseInit
    /\ MergeIdle
NextJtbl == JtblLine \/ BlockFinish \/ Compile \/ NextMerge
SpecJtbl == InitJtbl /\ [][NextJtbl]_vars

\* blocks with late rodata of every kind, from process_line to fixup_objfile
ExtentArgs == ArgChoices \cup {Args("O2", FALSE, FALSE, FALSE, TRUE, TRUE)}
ExtentSlots == {4, 13, 40}
InitExtent ==
    /\ opts \in {Options(a) : a \in ExtentArgs}
    /\ gstate = NewGlobalState
    /\ blk \in {TextBlock(n) : n \in ExtentSlots}
    /\ perr = "none"
    /\ fin = NoFin
    /\ line_words = <<>>
    /\ last_line = <<>>
    /\ pc = "lines"
    /\ ParseInit
    /\ MergeIdle
NextExtent == LateLine \/ BlockFinish \/ Compile \/ NextMerge
SpecExtent == InitExtent /\ [][NextExtent]_vars

\* a block with two words of late rodata and a jump table of jtbl bytes,
\* a label of the block in .late_rodata at value (0: no label) and an entry
\* of .rel.late_rodata at roff (0: none)
LabelledFunction(jtbl) == LateFunction(1, 8, <<Dummies[1], Dummies[2]>>, jtbl)

LabelledStub(little, pad, jtbl) ==
    LET regions == <<Region(0, 8)>>
    IN StubFile(StubSymtab(0, FALSE, "none", regions), 1, <<>>, <<>>,
                Repeat(0, pad)
                  \o (IF little THEN Reverse(Dummies[1]) ELSE Dummies[1])
                  \o (IF little THEN Reverse(Dummies[2]) ELSE Dummies[2])
                  \o Repeat(7, jtbl)
                  \o <<5, 5, 5, 5>>,
                <<>>, little)

LabelledAsm(little, jtbl, value, roff) ==
    LET regions == <<Region(0, 8)>>
        symtab == AsmSymtab(regions, FALSE, "none", 8 + jtbl)
                    \o (IF value = 0 THEN <<>>
                        ELSE <<Symbol("table", 6, value, STB_GLOBAL, STT_OBJECT)>>)
        rels == IF roff = 0 THEN <<>> ELSE <<[off |-> roff, sym |-> 2]>>
    IN [AsmFile(regions, FALSE, "none", <<>>, 8 + jtbl, little) EXCEPT
          !.symtab = [i \in DOMAIN symtab |-> to_bin(symtab[i])],
          !.reltabs = Tables(".rel.late_rodata", 6, Entries("asm", symtab, rels))]

\* the offsets of .late_rodata from the first label to the last, the end
\* among them
LabelOffsets(jtbl) == {8 + 4 * k : k \in 0..((8 + jtbl) \div 4)}

InitLabels ==
    /\ PreInit
    /\ opts = Options(Args("O2", FALSE, FALSE, FALSE, FALSE, FALSE))
    /\ pc = "assemble"
    /\ ParseInit
    /\ \E little \in BOOLEAN, pad \in {0, 4}, jtbl \in {0, 8} :
         \E value \in {0} \cup LabelOffsets(jtbl),
            roff \in {0} \cup (LabelOffsets(jtbl) \ {16 + jtbl}) :
            MergeStart(LabelledStub(little, pad, jtbl),
                       LabelledAsm(little, jtbl, value, roff),
                       <<LabelledFunction(jtbl)>>,
                       MergeArgs("No", FALSE))
NextLabels == NextMerge
SpecLabels == InitLabels /\ [][NextLabels]_vars
\* fixup_objfile with its first part (lines 625-790) taken step by step
\* the stub is read and the assembly source collected (lines 625-734)
CollectSource ==
    /\ pc = "collect"
    /\ \E r \in {LateRodataSource(
                   CollectFunctions(functions, NewMerge(ElfFile_new(disk))))} :
          MergeStep(r, "temp_dir") /\ Scope(temp_dir, r)
    /\ UNCHANGED <<disk, stub, asm_objfile, functions, margs>>

\* TempDir::with_prefix (line 736); ok: the directory could be made
MakeTempDir ==
    /\ pc = "temp_dir"
    /\ \E ok \in BOOLEAN :
         \E r \in {IF ok THEN merge ELSE Fail(merge, "io error")} :
            MergeStep(r, "source") /\ Scope(IF ok THEN "held" ELSE temp_dir, r)
    /\ UNCHANGED <<disk, stub, asm_objfile, functions, margs>>

\* the source is written into the directory (lines 738-755); ok: every
\* line could be encoded and written
WriteSource ==
    /\ pc = "source"
    /\ \E ok \in BOOLEAN :
         \E r \in {IF ok THEN merge ELSE Fail(merge, "io error")} :
            MergeStep(r, "assembler") /\ Scope(temp_dir, r)
    /\ UNCHANGED <<disk, stub, asm_objfile, functions, margs>>

\* the assembler is run and waited for (lines 757-769)
RunAssembler ==
    /\ pc = "assembler"
    /\ \E status \in {"success", "failure", "no shell"} :
         \E r \in {CASE status = "success" -> merge
                     [] status = "failure" -> Fail(merge, "Failed to assemble")
                     [] OTHER -> Fail(merge, "panic: Failed to run shell")} :
            MergeStep(r, "object") /\ Scope(temp_dir, r)
    /\ UNCHANGED <<disk, stub, asm_objfile, functions, margs>>

\* the assembled object is read out of the directory (lines 770-790);
\* ok: the file could be read
ReadAsmObject ==
    /\ pc = "object"
    /\ \E ok \in BOOLEAN :
         \E r \in {IF ok
                   THEN ReadAssembled(asm_objfile, margs.drop_mdebug_gptab, merge)
                   ELSE Fail(merge, "io error")} :
            MergeStep(r, "move") /\ Scope(temp_dir, r)
    /\ UNCHANGED <<disk, stub, asm_objfile, functions, margs>>

\* the positions of fixup_objfile
Positions ==
    {"collect", "temp_dir", "source", "assembler", "object", "move",
     "symbols", "relocations", "write", "done", "failed"}

\* fixup_objfile goes on to its next position
Advance ==
    /\ pc \notin {"done", "failed"}
    /\ pc' \in Positions \ {pc}

\* fixup_objfile is sequential code that waits for the assembler: as long
\* as it has not returned it goes on
InitTemp ==
    /\ PreInit
    /\ opts = Options(Args("O2", FALSE, FALSE, FALSE, FALSE, FALSE))
    /\ pc = "collect"
    /\ ParseInit
    /\ (InitIfdef \/ InitRegions \/ InitLateRodata)
NextTemp ==
    \/ CollectSource \/ MakeTempDir \/ WriteSource \/ RunAssembler
    \/ ReadAsmObject \/ MoveSections \/ Symbols \/ Relocations \/ WriteObject
SpecTemp == InitTemp /\ [][NextTemp]_vars /\ WF_pc(Advance)
\* the object file read, changed and written, byte by byte
InitWrite ==
    /\ PreInit
    /\ opts = Options(Args("O2", FALSE, FALSE, FALSE, FALSE, FALSE))
    /\ pc = "read"
    /\ ParseInit
    /\ WriteInit
NextWrite == ReadObject \/ RebuildSymtab \/ EmitObject \/ Reread
SpecWrite == InitWrite /\ [][NextWrite]_vars


(***************************************************************************)
(* Properties of the preprocessor                                          *)
(***************************************************************************)
StatementTokens == {"dummy", "float", "double", "jtbl"}

SlotsOnLine(slots, line) ==
    SelectSeq(slots, LAMBDA e : e[1] = line)

Kinds(slots) == [i \in DOMAIN slots |-> slots[i][2]]

\* C2: for every block finish accepts, the statement slots processed
\* (skipped, late-rodata and dummy ones) number fn_section_sizes[.text]/4,
\* and every line of the block gets as many slots as the 4-byte words it
\* added to .text, its statements being written on that line's own entry
\* of src.
C2_SlotsMatchTextWords ==
    fin.status = "ok" =>
      /\ Len(fin.slots) = blk.fn_section_sizes["Text"] \div 4
      /\ Len(fin.src) = Len(line_words) + 1
      /\ \A k \in 1..Len(line_words) :
           /\ Len(SlotsOnLine(fin.slots, k - 1)) = line_words[k]
           /\ SelectSeq(fin.src[k], LAMBDA t : t \in StatementTokens)
                = SelectSeq(Kinds(SlotsOnLine(fin.slots, k - 1)),
                            LAMBDA t : t \in StatementTokens)

\* a finished block with a skipped slot, a late-rodata statement and a dummy
C2_Witness ==
    /\ fin.status = "ok"
    /\ \E i, j, k \in DOMAIN fin.slots :
         /\ fin.slots[i][2] = "skip"
         /\ fin.slots[j][2] = "float"
         /\ fin.slots[k][2] = "dummy"

\* the bytes a sized directive stands for
Contribution(l) ==
    CASE l.d \in {"incbin", "space", "ascii", "byte"} -> l.n
      [] l.d = "half" -> 2 * l.n
      [] l.d \in {"word"} -> 4 * l.n
      [] l.d = "double" -> 8 * l.n
      [] l.d = "instr" -> 4
      [] OTHER -> 0

\* C3: while no line has been rejected, the .text and .late_rodata sizes
\* are multiples of 4; a line whose bytes would break this is rejected.
C3_TextSizesMultipleOf4 ==
    /\ perr = "none" =>
         /\ blk.fn_section_sizes["Text"] % 4 = 0
         /\ blk.fn_section_sizes["LateRodata"] % 4 = 0
    /\ ( /\ last_line # <<>>
         /\ ~last_line[1].glue
         /\ last_line[2].cur_section \in {"Text", "LateRodata"}
         /\ Contribution(last_line[1]) % 4 # 0 )
       => perr # "none"

\* .late_rodata grown by a .byte and a .half line that keep it a multiple of 4
C3_Witness ==
    /\ perr = "none"
    /\ last_line # <<>>
    /\ last_line[1].d = "half"
    /\ last_line[2].cur_section = "LateRodata"
    /\ last_line[2].fn_section_sizes["LateRodata"] = 4
    /\ blk.fn_section_sizes["LateRodata"] = 8

\* C4: an accepted .double line with k operands aligns the current
\* section's size to 4 and adds 8*k bytes to it, in every section.
C4_DoubleAddsInEverySection ==
    ( /\ last_line # <<>>
      /\ last_line[1].d = "double"
      /\ ~last_line[1].glue
      /\ perr = "none" )
    => blk.fn_section_sizes[last_line[2].cur_section]
         = AlignUp(last_line[2].fn_section_sizes[last_line[2].cur_section], 4)
             + 8 * last_line[1].n

\* C5: in every Function finish returns, a section with size > 0 has its
\* temp symbol name set.
C5_SizedSectionsAreNamed ==
    fin.status = "ok" =>
      \A s \in {"Text", "Data", "Rodata", "Bss"} :
         fin.fn.data[s].size > 0 => fin.fn.data[s].name # NoName

\* a Function with .text and a data section, both sized and named
C5_Witness ==
    /\ fin.status = "ok"
    /\ fin.fn.data["Text"].size > 0
    /\ fin.fn.data["Text"].name # NoName
    /\ \E s \in {"Data", "Rodata", "Bss"} :
         fin.fn.data[s].size > 4 /\ fin.fn.data[s].name # NoName


(***************************************************************************)
(* Properties of parse_source                                              *)
(***************************************************************************)
Synthesized ==
    {"prologue", "epilogue", "dummy", "float", "double", "jtbl",
     "rodata_decl", "data_decl", "bss_decl"}

NoRecurse == \A k \in DOMAIN roles : roles[k] # "pragma"

\* C1: for a source without `#pragma asmproc recurse`, parse_source has one
\* output line per source line read, after the leading `#line 1`; a line
\* of normal code is copied to its own place; and the prologue, statements,
\* epilogue and filler declarations of a block stand only on output lines
\* of that block (its first asm line through its closing line).
C1_OneOutputLinePerSourceLine ==
    (pc # "failed" /\ NoRecurse) =>
      /\ Len(output_lines) = line_no + 1
      /\ output_lines[1] = << <<"#line", 1>> >>
      /\ \A k \in 1..line_no :
           /\ roles[k] = "code" => output_lines[k + 1] = << <<"raw", k>> >>
           /\ \A i \in DOMAIN output_lines[k + 1] :
                output_lines[k + 1][i][1] \in Synthesized =>
                  /\ output_lines[k + 1][i][2] \in DOMAIN blocks
                  /\ blocks[output_lines[k + 1][i][2]].first <= k
                  /\ k <= blocks[output_lines[k + 1][i][2]].last

\* a whole file: a line of code and a closed block of several lines whose
\* prologue and epilogue stand on its first and last line
C1_Witness ==
    /\ pc = "done"
    /\ NoRecurse
    /\ \E k \in DOMAIN roles : roles[k] = "code"
    /\ \E f \in DOMAIN blocks :
         /\ blocks[f].first < blocks[f].last
         /\ \E i \in DOMAIN output_lines[blocks[f].first + 1] :
              output_lines[blocks[f].first + 1][i] = <<"prologue", f>>
         /\ \E i \in DOMAIN output_lines[blocks[f].last + 1] :
              output_lines[blocks[f].last + 1][i] = <<"epilogue", f>>

(***************************************************************************)
(* Properties of fixup_objfile                                             *)
(***************************************************************************)
\* the relocation tables of the written object that apply to section name
TablesOf(name) ==
    {t \in DOMAIN disk.reltabs : disk.reltabs[t].sh_info = find_section(disk, name)}

\* the symbol of the written table an entry names
Named(e) == merge.new_syms[e.sym_index + 1]

\* C6: after the merge, every entry of every relocation table of the
\* written object, whatever section the table applies to and whichever
\* object the entry came from, has a sym_index below the length of the
\* rebuilt symbol table, and the symbol there has the name of the symbol the
\* entry named before the merge.
C6_RelocationsKeepTheirSymbolName ==
    pc = "done" =>
      \A t \in DOMAIN disk.reltabs :
         \A r \in DOMAIN disk.reltabs[t].data :
            /\ disk.reltabs[t].data[r].sym_index < Len(disk.symtab)
            /\ Named(disk.reltabs[t].data[r]).name
                 = disk.reltabs[t].data[r].ref.name

\* C7: every relocation of the stub that is still in a table of .data,
\* .text, .rodata or .bss after the merge names the symbol it named before
\* (same section index and value), or the defined symbol that took the
\* place of the undefined one of the same name, also when several symbols
\* share a name, as the null entry and unnamed section symbols do.
C7_StubRelocationsKeepTheirSymbol ==
    pc = "done" =>
      \A s \in Range(OUTPUT_SECTIONS) :
         \A t \in TablesOf(s) :
            \A r \in DOMAIN disk.reltabs[t].data :
               disk.reltabs[t].data[r].from = "stub" =>
                 \/ /\ disk.reltabs[t].data[r].sym_index < Len(disk.symtab)
                    /\ Named(disk.reltabs[t].data[r]).st_shndx
                         = disk.reltabs[t].data[r].ref.st_shndx
                    /\ Named(disk.reltabs[t].data[r]).st_value
                         = disk.reltabs[t].data[r].ref.st_value
                 \/ /\ disk.reltabs[t].data[r].sym_index < Len(disk.symtab)
                    /\ disk.reltabs[t].data[r].ref.st_shndx = SHN_UNDEF
                    /\ Named(disk.reltabs[t].data[r]).st_shndx # SHN_UNDEF
                    /\ Named(disk.reltabs[t].data[r]).name
                         = disk.reltabs[t].data[r].ref.name

\* the offsets of .text whose byte the merge replaced
CopiedOffsets ==
    {o \in 0..(Len(stub.data[".text"]) - 1) :
        disk.data[".text"][o + 1] # stub.data[".text"][o + 1]}

StubEntries(rels) == SelectSeq(rels, LAMBDA e : e.from = "stub")

\* an entry without its symbol index
Place(rels) ==
    [i \in DOMAIN rels |-> <<rels[i].r_offset, rels[i].rel_type, rels[i].ref>>]

\* C8: every region of .text copied from the assembled object has each of
\* its 4-byte-aligned offsets in modified_text_positions; after the
\* relocations are rewritten no entry of a relocation table the stub had for
\* .text lies in a copied region, and every entry the stub had outside the
\* copied regions is kept.
C8_CopiedTextLosesItsRelocations ==
    pc = "done" =>
      /\ \A i \in DOMAIN merge.to_copy[".text"] :
            \A o \in merge.to_copy[".text"][i].loc
                       ..(merge.to_copy[".text"][i].loc
                            + merge.to_copy[".text"][i].size - 1) :
               /\ o % 4 = 0 => o \in merge.modified_text_positions
               /\ o \in CopiedOffsets
      /\ \A t \in DOMAIN stub.reltabs :
            stub.reltabs[t].sh_info = find_section(stub, ".text") =>
              Place(StubEntries(disk.reltabs[t].data))
                = Place(SelectSeq(stub.reltabs[t].data,
                                  LAMBDA e : e.r_offset \notin CopiedOffsets))

\* two regions were copied; of the stub's relocations of .text one lay in a
\* copied region and one outside
C8_Witness ==
    /\ pc = "done"
    /\ Len(merge.to_copy[".text"]) = 2
    /\ \E i \in DOMAIN merge.to_copy[".text"] : merge.to_copy[".text"][i].size = 4
    /\ \E t \in DOMAIN stub.reltabs :
          /\ stub.reltabs[t].sh_info = find_section(stub, ".text")
          /\ \E r \in DOMAIN stub.reltabs[t].data :
                stub.reltabs[t].data[r].r_offset \in CopiedOffsets
          /\ \E r \in DOMAIN stub.reltabs[t].data :
                stub.reltabs[t].data[r].r_offset \notin CopiedOffsets

Locals(symtab) == {i \in DOMAIN symtab : symtab[i].st_info[1] = STB_LOCAL}

\* C9: after the merge the written symbol table has the null entry first,
\* every LOCAL symbol before every symbol that is not LOCAL, a global
\* _gp_disp after every other global, and sh_info is the number of LOCAL
\* symbols.
C9_SymbolTableOrder ==
    pc = "done" =>
      /\ disk.symtab[1] = to_bin(NullSymbol)
      /\ \A i \in Locals(disk.symtab) :
            \A j \in (DOMAIN disk.symtab) \ Locals(disk.symtab) : i < j
      /\ \A i \in (DOMAIN disk.symtab) \ Locals(disk.symtab) :
            disk.symtab[i].st_name = "_gp_disp" =>
              \A j \in (DOMAIN disk.symtab) \ Locals(disk.symtab) :
                 disk.symtab[j].st_name # "_gp_disp" => j < i
      /\ disk.sh_info = Cardinality(Locals(disk.symtab))

\* a merged table with _gp_disp, which the stub had before its other
\* globals, two more globals and unnamed local symbols
C9_Witness ==
    /\ pc = "done"
    /\ Cardinality(Locals(disk.symtab)) >= 3
    /\ \E i, j, k \in (DOMAIN disk.symtab) \ Locals(disk.symtab) :
          /\ disk.symtab[i].st_name = "_gp_disp"
          /\ disk.symtab[j].st_name = "foo"
          /\ disk.symtab[k].st_name = "func1"
    /\ \E i, j \in DOMAIN stub.symbol_entries :
          /\ i < j
          /\ stub.symbol_entries[i].name = "_gp_disp"
          /\ stub.symbol_entries[j].name = "foo"

\* C10: after the merge no symbol of the written table has a name that
\* begins with _asmpp_, whether it came from the stub, from the assembled
\* object or from the statics of .mdebug.
C10_NoReservedNameIsLeft ==
    pc = "done" =>
      \A i \in DOMAIN disk.symtab : ~starts_with_asmpp(disk.symtab[i].st_name)

\* new_syms as the merge collected it, seen from the state before Symbols
Collected ==
    CollectSymbols(asm_objfile, margs.convert_statics, margs.objfile_path,
                   stub.mdebug, merge)

Defined(s) == s.st_shndx # SHN_UNDEF

\* two symbols of one name defined at different (section, value) places
Conflict(syms) ==
    \E i, j \in DOMAIN syms :
       /\ syms[i].name # "" /\ syms[i].name = syms[j].name
       /\ Defined(syms[i]) /\ Defined(syms[j])
       /\ <<syms[i].st_shndx, syms[i].st_value>>
            # <<syms[j].st_shndx, syms[j].st_value>>

\* C11: when the duplicates are dropped, the merge fails with "symbol
\* defined twice" exactly when two symbols of one name are defined at
\* different (section, value) places; otherwise the symbols of one name
\* become one entry, a defined one being kept over an undefined one, so the
\* new table has at most one symbol of each non-empty name, and a name
\* with one definition and any number of undefined references is no error.
C11_DuplicatesCollapseOrFail ==
    [][(pc = "symbols" /\ pc' # "symbols" /\ Collected.err = "none") =>
         /\ merge'.err = "symbol defined twice" => Conflict(Collected.new_syms)
         /\ ( /\ Conflict(Collected.new_syms)
              /\ \A k \in DOMAIN Collected.new_syms :
                    Collected.new_syms[k].name = ""
                      => Collected.new_syms[k].st_bind = STB_LOCAL )
            => merge'.err = "symbol defined twice"
         /\ merge'.err = "none" =>
              /\ \A i, j \in DOMAIN merge'.new_syms :
                    (i # j /\ merge'.new_syms[i].name # "")
                      => merge'.new_syms[i].name # merge'.new_syms[j].name
              /\ \A k \in DOMAIN Collected.new_syms :
                    Collected.new_syms[k].name # "" =>
                      \E i \in DOMAIN merge'.new_syms :
                         /\ merge'.new_syms[i].name = Collected.new_syms[k].name
                         /\ Defined(Collected.new_syms[k]) =>
                              /\ merge'.new_syms[i].st_shndx
                                   = Collected.new_syms[k].st_shndx
                              /\ merge'.new_syms[i].st_value
                                   = Collected.new_syms[k].st_value
    ]_vars

\* foo, undefined in the stub and defined by the assembled object, is one
\* defined entry of the new table
C11_Witness ==
    /\ pc = "relocations"
    /\ \E i \in DOMAIN stub.symbol_entries :
          stub.symbol_entries[i].name = "foo" /\ ~Defined(stub.symbol_entries[i])
    /\ \E i \in DOMAIN asm_objfile.symbol_entries :
          /\ asm_objfile.symbol_entries[i].name = "foo"
          /\ Defined(asm_objfile.symbol_entries[i])
    /\ Cardinality({i \in DOMAIN merge.new_syms : merge.new_syms[i].name = "foo"}) = 1
    /\ \E i \in DOMAIN merge.new_syms :
          merge.new_syms[i].name = "foo" /\ Defined(merge.new_syms[i])

\* C12: for every entry old -> new of moved_late_rodata, the four bytes of
\* the written .rodata at new are the four bytes of the assembled
\* .late_rodata at old: no word placed later (a dummy, the zero word of a
\* following function moved by 4, a jump table) replaces a word placed before.
C12_MovedLateRodataIsInPlace ==
    pc = "done" =>
      \A old \in DOMAIN merge.moved_late_rodata :
         Slice(disk.data[".rodata"], merge.moved_late_rodata[old], 4)
           = Slice(asm_objfile.data[".late_rodata"], old, 4)

\* two blocks were placed: the first with a jump table, the second with
\* its first dummy moved by 4 over a zero word, and a jump table
C12_Witness ==
    /\ pc = "done"
    /\ Len(functions) = 2
    /\ functions[1].jtbl_rodata_size = 8
    /\ functions[2].jtbl_rodata_size = 4
    /\ Cardinality(DOMAIN merge.moved_late_rodata) = 6
    /\ \E p \in 0..(Len(stub.data[".rodata"]) - 8) :
          /\ Slice(stub.data[".rodata"], p, 4) \in {Dummies[2], Reverse(Dummies[2])}
          /\ Slice(disk.data[".rodata"], p, 4) = Zeros
          /\ merge.moved_late_rodata[20] = p + 4

(***************************************************************************)
(* The object file read, changed and written                               *)
(***************************************************************************)
\* the index of the .mdebug section among the sections, 0 without one
MdebugIndex(elf) ==
    IF \E i \in DOMAIN elf.sections : elf.sections[i].header.sh_type = SHT_MIPS_DEBUG
    THEN CHOOSE i \in DOMAIN elf.sections :
            elf.sections[i].header.sh_type = SHT_MIPS_DEBUG
    ELSE 0

\* the object was written and write found .mdebug at another offset
MovedMdebug ==
    /\ pc \in {"written", "rewritten"}
    /\ MdebugIndex(merge.before) # 0
    /\ merge.before.sections[MdebugIndex(merge.before)].header.sh_offset
         # merge.objfile.sections[MdebugIndex(merge.before)].header.sh_offset

MdebugBefore == merge.before.sections[MdebugIndex(merge.before)]
MdebugAfter == merge.objfile.sections[MdebugIndex(merge.before)]

\* C13: whenever fixup_objfile has failed, the object file on disk is byte
\* for byte what it was before the call.
C13_FailureLeavesObjectFileAlone == pc = "failed" => disk = stub

\* C14: relocating a moved .mdebug keeps the length of the section and
\* every byte of it from offset 96 on.
C14_MdebugKeepsItsTables ==
    MovedMdebug =>
       /\ Len(MdebugAfter.data) = Len(MdebugBefore.data)
       /\ \A k \in (Hdrr_SIZE + 1)..Len(MdebugBefore.data) :
             MdebugAfter.data[k] = MdebugBefore.data[k]

\* the word of (the value of w + delta) mod 2^32, by halves of 16 bits
Shifted(w, delta) ==
    LET lo == (w[1] + 256 * w[2]) + delta
        hi == ((w[3] + 256 * w[4]) + (lo \div 65536)) % 65536
    IN <<(lo % 65536) % 256, (lo % 65536) \div 256, hi % 256, hi \div 256>>

\* C15: when .mdebug moves from old_sh_offset to new_sh_offset, each of the
\* eleven offset fields of the HDRR whose count is not zero becomes
\* (old + new_sh_offset - old_sh_offset) mod 2^32, and every other field of
\* the HDRR (offsets with a zero count, counts, magic, vstamp) is unchanged.
C15_OffsetsShiftWithTheSection ==
    MovedMdebug =>
       LET old == Hdrr_read(MdebugBefore.data, merge.objfile.little)
           new == Hdrr_read(MdebugAfter.data, merge.objfile.little)
           delta == MdebugAfter.header.sh_offset - MdebugBefore.header.sh_offset
       IN /\ \A p \in Range(RelocatedFields) :
                new[p[2]] = IF old[p[1]] # Zeros THEN Shifted(old[p[2]], delta)
                            ELSE old[p[2]]
          /\ \A n \in DOMAIN old :
                (\A p \in Range(RelocatedFields) : p[2] # n) => new[n] = old[n]

\* .mdebug moved up in the file, with counts that are zero and counts that
\* are not, and cb_ext_offset wrapped around
C15_Witness ==
    /\ MovedMdebug
    /\ MdebugAfter.header.sh_offset > MdebugBefore.header.sh_offset
    /\ LET old == Hdrr_read(MdebugBefore.data, merge.objfile.little)
           new == Hdrr_read(MdebugAfter.data, merge.objfile.little)
       IN /\ old.cb_line # Zeros /\ old.idn_max = Zeros /\ old.iext_max # Zeros
          /\ old.cb_ext_offset = <<252, 255, 255, 255>>
          /\ new.cb_ext_offset[4] = 0
          /\ new.cb_line_offset # old.cb_line_offset

\* the symbol table of the object in memory
SymtabOf(elf) == elf.sections[elf.symtab]

\* C16: in a big-endian and in a little-endian object alike, every entry
\* of the rebuilt symbol table, read in the byte order of the file, gives
\* back the fields of the symbol it was made of.
C16_SymbolsReadBackAsWritten ==
    pc = "emit" =>
       \A i \in DOMAIN merge.new_syms :
          LET y == SymbolOfBytes(Slice(SymtabOf(merge.objfile).data, 16 * (i - 1), 16),
                                 merge.objfile.little)
              s == merge.new_syms[i]
          IN /\ y.st_name = s.st_name /\ y.st_value = s.st_value
             /\ y.st_size = s.st_size /\ y.st_shndx = s.st_shndx
             /\ y.st_type = s.st_type /\ y.st_bind = s.st_bind
             /\ y.st_visibility = s.st_visibility

\* C17: the file that write produced, parsed and written again, comes out
\* byte for byte the same.
C17_WriteIsAFixedPoint ==
    pc = "rewritten" => merge.again.err = "none" /\ merge.again.out = disk

\* the fixed point where the written file can be read back: big-endian
\* objects, and objects whose rebuilt symbol table names no string
FixedPointWhereReadable ==
    (pc = "rewritten" /\ (~merge.objfile.little \/ Len(merge.new_syms) = 1)) =>
       merge.again.err = "none" /\ merge.again.out = disk

\* the sections of the written object that have bytes in the file
Placed ==
    {i \in DOMAIN merge.objfile.sections :
       merge.objfile.sections[i].header.sh_type \notin {SHT_NULL, SHT_NOBITS}}

\* C18: after write every section that is neither NULL nor NOBITS has an
\* sh_offset that is a multiple of its sh_addralign (when that is positive)
\* and an sh_size that is the length of its bytes; the bytes lie in the
\* file at that offset, in the order of the sections, without overlap,
\* after the 52 bytes of the ELF header; e_shoff is a multiple of 4 past
\* all of them, and e_shnum is the number of sections.
C18_WrittenLayout ==
    pc = "written" =>
       LET elf == merge.objfile
           h == ElfHeader_read(disk, elf.little)
           sh(i) == SectionHeader_read(disk,
                      h.e_shoff + SectionHeader_SIZE * (i - 1), elf.little)
       IN /\ \A i \in Placed :
                /\ sh(i).sh_addralign > 0 => sh(i).sh_offset % sh(i).sh_addralign = 0
                /\ sh(i).sh_size = Len(elf.sections[i].data)
                /\ sh(i).sh_offset >= ElfHeader_SIZE
                /\ sh(i).sh_offset + sh(i).sh_size <= h.e_shoff
                /\ Slice(disk, sh(i).sh_offset, sh(i).sh_size) = elf.sections[i].data
          /\ \A i, j \in Placed :
                i < j => sh(i).sh_offset + sh(i).sh_size <= sh(j).sh_offset
          /\ h.e_shoff % 4 = 0
          /\ h.e_shnum = Len(elf.sections)
          /\ Len(disk) = h.e_shoff + SectionHeader_SIZE * Len(elf.sections)

\* a written object whose symbol table grew, so that what follows it
\* moved, and whose .text was padded up to its alignment
C18_Witness ==
    /\ pc = "written"
    /\ MovedMdebug
    /\ Len(SymtabOf(merge.objfile).data) > Len(SymtabOf(ParseFile(stub)).data)
    /\ merge.objfile.sections[2].header.sh_offset = 56
    /\ Len(merge.objfile.sections[5].data) = 3
    /\ merge.objfile.sections[6].header.sh_offset % 4 = 0

(***************************************************************************)
(* The synthesized functions of a finished block                           *)
(***************************************************************************)
\* the number of slots before each function: 0, then tot_emitted at every
\* split; a block without .text has no function
FnStarts == IF fin.slots = <<>> THEN <<>> ELSE <<0>> \o fin.splits

\* the last slot of function k
FnEnd(k) == IF k < Len(FnStarts) THEN FnStarts[k + 1] ELSE Len(fin.slots)

\* the late-rodata entries popped off rodata_stack before slot p
Popped(p) ==
    Cardinality({i \in 1..(p - 1) : fin.slots[i][2] \notin {"skip", "dummy"}})

\* at slot p rodata_stack is not empty
Queued(p) == Popped(p) < Len(fin.late)

\* at slot p the top of rodata_stack is an empty statement: a late-rodata
\* statement is mid-stream
MidStream(p) == Queued(p) /\ fin.late[Popped(p) + 1] = ""

\* instr_count - tot_emitted at slot p
Remaining(p) == Len(fin.slots) - (p - 1)

\* C19: a synthesized function holds more than MAX_FN_SIZE = 100 slots
\* only if, when its 101st slot was due, a late-rodata statement was
\* mid-stream or fewer than min_instr_count instructions remained.
C19_FunctionsHoldAtMost100Slots ==
    fin.status = "ok" =>
       \A k \in DOMAIN FnStarts :
          FnEnd(k) - FnStarts[k] > MAX_FN_SIZE =>
             \/ MidStream(FnStarts[k] + MAX_FN_SIZE + 1)
             \/ Remaining(FnStarts[k] + MAX_FN_SIZE + 1) < opts.min_instr_count

\* what the loop does: a function goes past its 101st slot only while a
\* late-rodata statement is mid-stream or no more than min_instr_count
\* instructions remain
FunctionsSplitPast101 ==
    fin.status = "ok" =>
       \A k \in DOMAIN FnStarts :
          \A p \in (FnStarts[k] + MAX_FN_SIZE + 2)..FnEnd(k) :
             MidStream(p) \/ Remaining(p) <= opts.min_instr_count

\* the slots function k skips: skip_instr_count, and prelude_if_late_rodata
\* more if late rodata is queued when the function starts
SkipCount(k) ==
    opts.skip_instr_count
      + (IF Queued(FnStarts[k] + 1) THEN opts.prelude_if_late_rodata ELSE 0)

\* C20: in every synthesized function of a finished block the skipped
\* slots are exactly its first skip_instr_count ones, and
\* prelude_if_late_rodata more when late rodata is still queued; no slot
\* after them is skipped.
C20_SkippedSlotsLeadEachFunction ==
    fin.status = "ok" =>
       \A k \in DOMAIN FnStarts :
          /\ FnEnd(k) - FnStarts[k] >= SkipCount(k)
          /\ \A p \in (FnStarts[k] + 1)..FnEnd(k) :
                (fin.slots[p][2] = "skip") <=> (p - FnStarts[k] <= SkipCount(k))

\* a block split into two functions, late rodata being queued at the start
\* of both, under -KPIC: each skips 1 + 3 slots, then emits
C20_Witness ==
    /\ fin.status = "ok"
    /\ Len(FnStarts) = 2
    /\ opts.prelude_if_late_rodata = 3
    /\ SkipCount(1) = 4 /\ SkipCount(2) = 4
    /\ fin.slots[FnStarts[2] + 4][2] = "skip"
    /\ fin.slots[FnStarts[2] + 5][2] = "float"
    /\ fin.slots[Len(fin.slots)][2] = "dummy"

(***************************************************************************)
(* The late rodata of a finished block                                     *)
(***************************************************************************)
RatioError == "late rodata to text ratio is too high"
OverflowPanic == "panic: attempt to subtract with overflow"

\* finish got as far as the slot loop: a function is synthesized and the
\* block is not too short
RanSlotLoop ==
    /\ fin.status # "none"
    /\ fin.err # OverflowPanic
    /\ (HasSection(blk.fn_section_sizes, "Text") \/ fin.late # <<>>)
    /\ blk.fn_section_sizes["Text"] \div 4 >= opts.min_instr_count

\* the locals of finish after the slot loop (tot_skipped, rodata_stack, ...)
AfterSlotLoop ==
    SlotLoop(blk, opts, SlotLines(blk.fn_ins_inds),
        [src |-> [i \in 1..(blk.num_lines + 1) |-> <<>>],
         tot_emitted |-> 0, tot_skipped |-> 0,
         fn_emitted |-> 0, fn_skipped |-> 0, skipping |-> TRUE,
         stack |-> fin.late, slots |-> <<>>, splits |-> <<>>,
         namectr |-> 0, name |-> NoName, err |-> "none"])

\* the text slots that are not skipped
Available == (blk.fn_section_sizes["Text"] \div 4) - AfterSlotLoop.tot_skipped

\* every late-rodata word is emitted as a single float
SingleFloats ==
    /\ ~opts.mips1
    /\ \A i \in DOMAIN fin.late : fin.late[i] \in {"float", ""}

\* C21: finish fails with the ratio error exactly when the slots the
\* late-rodata statements need exceed the text slots that are not skipped;
\* with W words emitted as single floats that is 3 * W > N - skipped.
C21_RatioErrorIffLateRodataDoesNotFit ==
    RanSlotLoop =>
       /\ (fin.err = RatioError) <=> (Len(fin.late) > Available)
       /\ SingleFloats =>
             ((fin.err # RatioError) <=>
                (3 * (blk.fn_section_sizes["LateRodata"] \div 4) <= Available))

\* a block split into two functions, both of which skip slots, is
\* rejected although its late rodata would fit into the slots of the block
C21_Witness ==
    /\ RanSlotLoop
    /\ fin.err = RatioError
    /\ SingleFloats
    /\ Len(AfterSlotLoop.splits) = 1
    /\ Len(fin.late) <= blk.fn_section_sizes["Text"] \div 4

(***************************************************************************)
(* The jump table of a finished block                                      *)
(***************************************************************************)
\* where late_rodata_fn_output holds the jump-table expression
JtblPositions == {p \in DOMAIN fin.late : fin.late[p] = "jtbl"}

\* the late-rodata words the statements before entry p stand for: the
\* loop index i when entry p was pushed
WordsBefore(p) ==
    Cardinality({i \in 1..(p - 1) : fin.late[i] = "float"})
      + 2 * Cardinality({i \in 1..(p - 1) : fin.late[i] = "double"})

LateSize == blk.fn_section_sizes["LateRodata"] \div 4
NumInstr == blk.fn_section_sizes["Text"] \div 4

\* the conditions on a jump table at entry p, `least` text instructions
\* having to remain beyond the p - 1 entries pushed before
JtblAllowed(p, least) ==
    /\ blk.late_rodata_alignment # 0 =>
          \E i \in 1..(p - 1) : fin.late[i] = "double"
    /\ opts.use_jtbl_for_rodata
    /\ WordsBefore(p) >= 1
    /\ LateSize - WordsBefore(p) >= (IF opts.pascal THEN 2 ELSE 5)
    /\ NumInstr - (p - 1) >= least
    /\ \A i \in (p + 1)..Len(fin.late) : fin.late[i] = ""
    /\ fin.status = "ok" =>
          fin.fn.jtbl_rodata_size = 4 * (LateSize - WordsBefore(p))

\* C22: finish puts a jump table into late_rodata_fn_output only when it
\* is not waiting for a required double, use_jtbl_for_rodata is on, a word
\* has been emitted, 5 words (2 for Pascal) remain and 10 text instructions
\* remain beyond the entries already pushed; there is at most one jump
\* table and it covers all the remaining words.
C22_JumpTableOnlyWhereAllowed ==
    fin.status # "none" =>
       /\ Cardinality(JtblPositions) <= 1
       /\ \A p \in JtblPositions : JtblAllowed(p, 10)

\* what holds of the blocks finish accepts: jtbl_size + 1 instructions
\* remain (9 for Pascal, 12 with -mips1)
JumpTableInAcceptedBlocks ==
    fin.status = "ok" =>
       /\ Cardinality(JtblPositions) <= 1
       /\ \A p \in JtblPositions : JtblAllowed(p, JtblParams(opts)[1] + 1)

(***************************************************************************)
(* .double in .late_rodata                                                 *)
(***************************************************************************)
\* the alignment a .double at late-rodata size n implies
ImpliedAlignment(n) == IF n % 8 = 0 THEN 8 ELSE 4

\* word index i has the parity of the doubles of the block
DoubleParity(i) ==
    IF blk.late_rodata_alignment = 8 THEN i % 2 = 0 ELSE i % 2 = 1

\* the last line was a .double fed to a block in .late_rodata
DoubleInLateRodata ==
    /\ last_line # <<>>
    /\ last_line[1].d = "double"
    /\ ~last_line[1].glue
    /\ last_line[2].cur_section = "LateRodata"

\* C23: a .double in .late_rodata infers an unknown alignment from the
\* late-rodata size so far (8 at 0 mod 8, 4 at 4 mod 8) and marks it as
\* inferred; with a known alignment it is rejected when it starts at the
\* other parity; finish emits a double for two consecutive dummy words
\* exactly at the word indices of the parity of the alignment.
C23_DoublesInLateRodata ==
    /\ (DoubleInLateRodata /\ fin.status = "none") =>
          LET before == last_line[2]
              size == before.fn_section_sizes["LateRodata"]
          IN IF before.late_rodata_alignment = 0
             THEN /\ blk.err = "none"
                  /\ blk.late_rodata_alignment = ImpliedAlignment(size)
                  /\ blk.late_rodata_alignment_from_context
                  /\ blk.fn_section_sizes["LateRodata"]
                        = size + 8 * last_line[1].n
             ELSE /\ (blk.err # "none")
                        <=> (before.late_rodata_alignment # ImpliedAlignment(size))
                  /\ blk.late_rodata_alignment = before.late_rodata_alignment
                  /\ blk.late_rodata_alignment_from_context
                        = before.late_rodata_alignment_from_context
    /\ fin.status # "none" =>
          \A p \in DOMAIN fin.late :
             /\ fin.late[p] = "double" =>
                   /\ blk.late_rodata_alignment # 0
                   /\ DoubleParity(WordsBefore(p))
                   /\ WordsBefore(p) + 1 < LateSize
             /\ (fin.late[p] = "float" /\ blk.late_rodata_alignment # 0) =>
                   ~(DoubleParity(WordsBefore(p)) /\ WordsBefore(p) + 1 < LateSize)
    /\ fin.status = "ok" =>
          Len(fin.fn.late_rodata_dummy_bytes) = WordsBefore(Len(fin.late) + 1)

\* an accepted block whose alignment 4 was inferred from a .double after
\* one word: a float for word 0, then a double for words 1 and 2
C23_Witness ==
    /\ fin.status = "ok"
    /\ blk.late_rodata_alignment = 4
    /\ blk.late_rodata_alignment_from_context
    /\ LateSize = 3
    /\ fin.late = <<"float", "", "", "double", "", "">>
    /\ Len(fin.fn.late_rodata_dummy_bytes) = 3

(***************************************************************************)
(* .late_rodata_alignment                                                  *)
(***************************************************************************)
\* the last line was a .late_rodata_alignment directive
AlignmentDirective ==
    /\ last_line # <<>>
    /\ last_line[1].d = "late_rodata_alignment"
    /\ ~last_line[1].glue

\* C24: .late_rodata_alignment N is rejected outside .late_rodata, for N
\* other than 4 and 8, and when another alignment is already recorded;
\* otherwise it records N, adds no bytes to any section and is copied to
\* neither assembly output.
C24_LateRodataAlignmentDirective ==
    AlignmentDirective =>
       LET before == last_line[2]
           n == last_line[1].n
       IN /\ (blk.err # "none") <=>
                \/ before.cur_section # "LateRodata"
                \/ n \notin {4, 8}
                \/ (before.late_rodata_alignment # 0
                      /\ before.late_rodata_alignment # n)
          /\ blk.err = "none" =>
                /\ blk.late_rodata_alignment = n
                /\ blk.fn_section_sizes = before.fn_section_sizes
                /\ blk.late_rodata_asm_conts = before.late_rodata_asm_conts
                /\ blk.asm_conts = before.asm_conts
                /\ blk.cur_section = before.cur_section

\* an accepted directive that repeats the alignment a .double implied
C24_Witness ==
    /\ AlignmentDirective
    /\ blk.err = "none"
    /\ last_line[2].late_rodata_alignment = 8
    /\ last_line[2].late_rodata_alignment_from_context
    /\ last_line[2].fn_section_sizes["LateRodata"] = 8
    /\ blk.late_rodata_asm_conts = <<".align 0", "double", ".align 2">>

(***************************************************************************)
(* #pragma asmproc recurse                                                 *)
(***************************************************************************)
\* before source line k, a #pragma asmproc recurse has been read that no
\* line has answered yet
Awaiting(k) ==
    \E j \in 1..(k - 1) :
       /\ roles[j] = "pragma"
       /\ \A m \in (j + 1)..(k - 1) : roles[m] # "include"

\* C25: the line after #pragma asmproc recurse is taken as the #include
\* (recursed into, or the run fails); nothing else is processed in between
\* and the mode does not outlast that line.
C25_RecurseModeLastsOneLine ==
    /\ \A k \in DOMAIN roles :
          (k > 1 /\ roles[k - 1] = "pragma") => roles[k] = "include"
    /\ is_early_include => (roles # <<>> /\ roles[Len(roles)] = "pragma")

\* what the loop does: a line of normal code is never passed through while
\* a pragma is unanswered, and the flag is set exactly then
RecurseModeEndsAtInclude ==
    /\ \A k \in DOMAIN roles : roles[k] = "code" => ~Awaiting(k)
    /\ is_early_include <=> Awaiting(Len(roles) + 1)

(***************************************************************************)
(* Blocks the compiler left out of the stub                                *)
(***************************************************************************)
\* the temp symbols of f, in the order of function.data
TempNames(f) ==
    LET named == SelectSeq(OUTPUT_SECTIONS, LAMBDA s : f.data[s].name # NoName)
    IN [i \in DOMAIN named |-> f.data[named[i]].name]

InStub(name) == find_symbol(stub.symbol_entries, name).found

\* a temp symbol of f is absent from the stub's symtab
Ifdefed(f) == \E i \in DOMAIN TempNames(f) : ~InStub(TempNames(f)[i])

\* the first temp symbol of f is absent from the stub's symtab
IfdefedAtFirst(f) == TempNames(f) # <<>> /\ ~InStub(TempNames(f)[1])

\* the loop over the functions has run
Collected_Functions == "to_copy" \in DOMAIN merge

\* what the loop over the functions leaves when it is given fs
CollectedOf(fs) == LateRodataSource(CollectFunctions(fs, NewMerge(stub)))

\* merge holds, of the loop over the functions, what r holds
SameCollection(r) ==
    /\ merge.to_copy = r.to_copy
    /\ merge.prev_locs = r.prev_locs
    /\ merge.asm = r.asm
    /\ merge.all_text_glabels = r.all_text_glabels
    /\ merge.all_late_rodata_dummy_bytes = r.all_late_rodata_dummy_bytes
    /\ merge.all_jtbl_rodata_size = r.all_jtbl_rodata_size
    /\ merge.late_rodata_asm = r.late_rodata_asm
    /\ merge.func_sizes = r.func_sizes

\* C26: a function one of whose temp symbols is absent from the stub's
\* symtab is skipped entirely: to_copy, the padding and the lines of the
\* assembly source, the text glabels, the late-rodata dummy bytes and
\* jump-table sizes and prev_locs are what they are without it.
C26_IfdefedFunctionsAreSkipped ==
    Collected_Functions =>
       /\ SameCollection(CollectedOf(SelectSeq(functions, LAMBDA f : ~Ifdefed(f))))
       /\ \A i \in DOMAIN functions :
             Ifdefed(functions[i]) =>
                \A s \in Range(OUTPUT_SECTIONS) :
                   \A c \in DOMAIN merge.to_copy[s] :
                      merge.to_copy[s][c].temp_name # functions[i].data[s].name

\* what the loop does: a function is skipped entirely when the first of
\* its temp symbols is absent
SkippedWhenFirstSymbolIsAbsent ==
    Collected_Functions =>
       /\ SameCollection(CollectedOf(SelectSeq(functions, LAMBDA f : ~IfdefedAtFirst(f))))
       /\ \A i \in DOMAIN functions :
             IfdefedAtFirst(functions[i]) =>
                \A s \in Range(OUTPUT_SECTIONS) :
                   \A c \in DOMAIN merge.to_copy[s] :
                      merge.to_copy[s][c].temp_name # functions[i].data[s].name

(***************************************************************************)
(* The statics of .mdebug                                                  *)
(***************************************************************************)
\* new_syms when the loop over the assembled symbols is done (line 1018)
BeforeStatics ==
    ImportSymbols(asm_objfile,
                  [merge EXCEPT !.asm_syms = asm_objfile.symbol_entries,
                                !.new_syms = KeptStubSymbols(merge.objfile.symbol_entries)],
                  1)

\* new_syms when the statics are added (line 1136)
AfterStatics ==
    CollectSymbols(asm_objfile, margs.convert_statics, margs.objfile_path,
                   stub.mdebug, merge)

\* the STATIC and STATIC_PROC records of .mdebug, in the order of the walk
StaticRecords ==
    SelectSeq(Flatten(stub.mdebug),
              LAMBDA y : y.st \in {MIPS_DEBUG_ST_STATIC, MIPS_DEBUG_ST_STATIC_PROC})

\* the symbols the walk added
AddedStatics ==
    SubSeq(AfterStatics.new_syms, Len(BeforeStatics.new_syms) + 1,
           Len(AfterStatics.new_syms))

\* the step of fixup_objfile that merges the symbols
SymbolsStep == pc = "symbols" /\ pc' # "symbols"

ScopeOpeners ==
    {MIPS_DEBUG_ST_FILE, MIPS_DEBUG_ST_STRUCT, MIPS_DEBUG_ST_UNION,
     MIPS_DEBUG_ST_ENUM, MIPS_DEBUG_ST_BLOCK, MIPS_DEBUG_ST_PROC,
     MIPS_DEBUG_ST_STATIC_PROC}

\* the scopes open before record j of file descriptor fd: the openers less
\* the END records among the first j - 1
Depth(fd, j) ==
    Cardinality({k \in 1..(j - 1) : fd[k].st \in ScopeOpeners})
      - Cardinality({k \in 1..(j - 1) : fd[k].st = MIPS_DEBUG_ST_END})

\* the statics of .mdebug in the order of the walk, each with the scopes
\* open where it stands
StaticsWalked ==
    SelectSeq(
      Flatten([f \in DOMAIN stub.mdebug |->
                 [j \in DOMAIN stub.mdebug[f] |->
                    [y |-> stub.mdebug[f][j], level |-> Depth(stub.mdebug[f], j)]]]),
      LAMBDA w : w.y.st \in {MIPS_DEBUG_ST_STATIC, MIPS_DEBUG_ST_STATIC_PROC})

\* the name the i-th static is imported under
ImportedName(i) ==
    LET w == StaticsWalked[i]
        earlier == {k \in 1..(i - 1) :
                      /\ StaticsWalked[k].level > 1
                      /\ StaticsWalked[k].y.name = w.y.name}
    IN IF w.level > 1
       THEN w.y.name \o ":" \o ToString(Cardinality(earlier) + 1)
       ELSE w.y.name

\* every file descriptor closes the scopes it opens
ScopesBalanced ==
    \A f \in DOMAIN stub.mdebug : Depth(stub.mdebug[f], Len(stub.mdebug[f]) + 1) = 0

HasReginfo(elf) == find_section(elf, ".reginfo") # 0

\* fixup_objfile has read the assembled object and gone on
Unified == pc \in {"move", "symbols", "relocations", "write", "done"}

\* the bytes of the stub's .reginfo, each OR'ed with the byte of the
\* assembled object at its place
OredReginfo ==
    [i \in DOMAIN stub.data[".reginfo"] |->
       IF i \in DOMAIN asm_objfile.data[".reginfo"]
       THEN stub.data[".reginfo"][i] \cup asm_objfile.data[".reginfo"][i]
       ELSE stub.data[".reginfo"][i]]

\* C29: .reginfo is merged only if both objects have the section, each
\* byte of the stub's becoming (stub byte OR asm byte); if either object
\* lacks .reginfo the step fails nothing and the stub's .reginfo, if it has
\* one, is left as it was.
C29_ReginfoMergedWhenBothHaveIt ==
    /\ merge.err # "panic: called unwrap on None (.reginfo)"
    /\ (Unified /\ HasReginfo(stub) /\ HasReginfo(asm_objfile)) =>
          merge.objfile.data[".reginfo"] = OredReginfo
    /\ (Unified /\ HasReginfo(stub) /\ ~HasReginfo(asm_objfile)) =>
          merge.objfile.data[".reginfo"] = stub.data[".reginfo"]
    /\ (Unified /\ ~HasReginfo(stub)) => ~HasReginfo(merge.objfile)

\* what the step does: a stub with .reginfo is merged with the .reginfo of
\* the assembled object, and the run aborts if that object has none; a stub
\* without .reginfo is left without
ReginfoMergedOrAborted ==
    /\ merge.err = "panic: called unwrap on None (.reginfo)" =>
          HasReginfo(stub) /\ ~HasReginfo(asm_objfile) /\ pc = "failed"
    /\ (Unified /\ HasReginfo(stub)) =>
          /\ HasReginfo(asm_objfile)
          /\ merge.objfile.data[".reginfo"] = OredReginfo
    /\ (Unified /\ ~HasReginfo(stub)) => ~HasReginfo(merge.objfile)

(***************************************************************************)
(* Six words of late rodata                                                *)
(***************************************************************************)
\* finish has run on a block with six words of late rodata, at least least
\* slots of .text and at least free of them not skipped, under options
\* that allow jump tables
SixWords(least, free) ==
    /\ fin # NoFin
    /\ opts.use_jtbl_for_rodata /\ ~opts.pascal /\ ~opts.mips1
    /\ blk.fn_section_sizes["LateRodata"] = 24
    /\ blk.fn_section_sizes["Text"] \div 4 >= least
    /\ Available >= free

\* the late rodata is in the stub's .rodata
LateRodataMoved == pc \in {"symbols", "relocations", "write", "done"}

\* the stub's relocations are fixed up
RelocationsFixed == pc \in {"write", "done"}

\* where the first word of the assembled late rodata went
FirstMoved == merge.moved_late_rodata[8]

\* the r_offset of the entries of .rel.rodata
RodataOffsets(elf) ==
    IF find_reltab(elf, ".rel.rodata") = 0 THEN <<>>
    ELSE [i \in DOMAIN elf.reltabs[find_reltab(elf, ".rel.rodata")].relocations |->
            elf.reltabs[find_reltab(elf, ".rel.rodata")].relocations[i].r_offset]

\* the words first..(first + n - 1) of the assembled late rodata lie one
\* after the other in the stub's .rodata, the first of them at position at,
\* they are its jump-table cells, and no entry of .rel.rodata is left at one
TableMoved(first, n, at) ==
    LET cells == {at + 4 * k : k \in 0..(n - 1)}
    IN /\ LateRodataMoved =>
            /\ \A k \in 0..(n - 1) :
                  merge.moved_late_rodata[8 + 4 * (first + k)] = at + 4 * k
            /\ Slice(merge.objfile.data[".rodata"], at, 4 * n)
                 = Slice(asm_objfile.data[".late_rodata"], 8 + 4 * first, 4 * n)
            /\ merge.jtbl_rodata_positions = cells
       /\ RelocationsFixed =>
            RodataOffsets(merge.objfile)
              = SelectSeq(RodataOffsets(stub), LAMBDA off : off \notin cells)

\* C30 as the spec has it: with use_jtbl_for_rodata, neither pascal nor
\* mips1 and enough text, six words of .late_rodata give a single switch of
\* 9 slots and jtbl_rodata_size = 24, all six words being jump-table data;
\* after the merge the 24 bytes are contiguous in the stub's .rodata and
\* every stub relocation at one of the cells is dropped.
C30_SixWordsAreOneJumpTable ==
    SixWords(13, 12) =>
       /\ fin.status = "ok"
       /\ fin.late = <<"jtbl">> \o Repeat("", 8)
       /\ fin.fn.jtbl_rodata_size = 24
       /\ TableMoved(0, 6, FirstMoved)

\* C30, amended: with use_jtbl_for_rodata, neither pascal nor mips1, no
\* late-rodata alignment, at least 13 slots of .text and at least 12 of
\* them not skipped, six words of
\* .late_rodata give one dummy float of 3 slots and then a single switch of
\* 9 slots, and jtbl_rodata_size = 20: the last five words are jump-table
\* data.  After the merge those 20 bytes are contiguous in the stub's
\* .rodata, right after the word that replaced the float, and every stub
\* relocation at one of the five cells is dropped, the others being kept.
C30_SixWordsAreFloatAndJumpTable ==
    (SixWords(13, 12) /\ blk.late_rodata_alignment = 0) =>
       /\ fin.status = "ok"
       /\ fin.late = <<"float", "", "", "jtbl">> \o Repeat("", 8)
       /\ Len(fin.fn.late_rodata_dummy_bytes) = 1
       /\ fin.fn.jtbl_rodata_size = 20
       /\ TableMoved(1, 5, FirstMoved + 4)

\* the merge is done for such a block whose stub had a relocation at every
\* word of .rodata
C30_Witness ==
    /\ SixWords(13, 12)
    /\ blk.late_rodata_alignment = 0
    /\ pc = "done"
    /\ fin.fn.jtbl_rodata_size = 20
    /\ Len(RodataOffsets(stub)) = Len(stub.data[".rodata"]) \div 4
    /\ Len(RodataOffsets(merge.objfile)) = Len(RodataOffsets(stub)) - 5
    /\ FirstMoved = 4

(***************************************************************************)
(* Short blocks                                                            *)
(***************************************************************************)
\* the block was fed a single line, an instruction
OnlyInstruction ==
    /\ line_words = <<1>>
    /\ last_line[1].d = "instr"

\* finish has run on a block whose only content is a glabel and n
\* instructions
LabelledInstructions(n) ==
    /\ fin # NoFin
    /\ blk.num_lines = n + 1
    /\ blk.asm_conts = <<"glabel">> \o Repeat("instr", n)

\* the dummy statements finish emitted
DummyStatements == SelectSeq(fin.slots, LAMBDA e : e[2] = "dummy")

TooShort == "too short .text block"
NoGlabel == ".text block without an initial glabel"

EmptyBlockClosed ==
    /\ Len(roles) >= 2
    /\ Len(roles) = line_no
    /\ roles[Len(roles)] = "close"
    /\ roles[Len(roles) - 1] = "open"

\* Function f came from a block with no line between `GLOBAL_ASM(` and `)`
EmptyBlock(f) ==
    /\ f \in DOMAIN blocks
    /\ blocks[f].first = blocks[f].last
    /\ roles[blocks[f].last] = "close"

\* the tokens of Function f in the output
TokensOf(f) ==
    { t \in UNION { Range(output_lines[i]) : i \in DOMAIN output_lines } :
        t[2] = f /\ t[1] \in {"prologue", "epilogue", "dummy", "float",
                              "double", "jtbl", "rodata_decl", "data_decl",
                              "bss_decl"} }

\* C32 as the spec has it: an empty block gives a synthetic function,
\* prologue and epilogue with no statement between them, and its
\* AsmFunction has a .text temp symbol.
C32_EmptyBlockIsAFunction ==
    \A f \in DOMAIN blocks :
       EmptyBlock(f) =>
          /\ asm_functions[f].data["Text"].name # NoName
          /\ <<"prologue", f>> \in TokensOf(f)
          /\ <<"epilogue", f>> \in TokensOf(f)

\* C32, amended: an empty block is accepted and gives no synthetic
\* function: its one output line is empty, and the resulting AsmFunction
\* has no temp symbol and size 0 in every section, no asm lines and no
\* late-rodata dummy bytes.
C32_EmptyBlockIsNoFunction ==
    /\ EmptyBlockClosed =>
          /\ pc \in {"reading", "done"}
          /\ perr = "none"
          /\ fin.status = "ok"
          /\ fin.src = << <<>> >>
          /\ EmptyBlock(Len(asm_functions))
    /\ \A f \in DOMAIN blocks :
          EmptyBlock(f) =>
             /\ \A s \in {"Text", "Data", "Rodata", "Bss"} :
                   asm_functions[f].data[s] = Sym(NoName, 0)
             /\ asm_functions[f].asm_conts = <<>>
             /\ asm_functions[f].late_rodata_dummy_bytes = <<>>
             /\ asm_functions[f].jtbl_rodata_size = 0
             /\ output_lines[blocks[f].first + 1] = <<>>
             /\ TokensOf(f) = {}

\* an empty block was closed after a block that did give a function
C32_Witness ==
    /\ EmptyBlockClosed
    /\ Len(asm_functions) = 2
    /\ EmptyBlock(2)
    /\ asm_functions[1].data["Text"].name # NoName
    /\ asm_functions[2].data["Text"].name = NoName

(***************************************************************************)
(* The temporary directory                                                 *)
(***************************************************************************)
\* fixup_objfile has returned or unwound
Returned == pc \in {"done", "failed"}

\* C33: the temporary directory is acquired once per fixup_objfile call,
\* it is held from its creation until the call ends, so never released
\* before the assembled object has been read, and on every way out of the
\* call (normal return, error return, panic after its creation) it is
\* released by the time control is back with the caller.
C33_TempDirIsScoped ==
    /\ [](pc \in {"collect", "temp_dir"} => temp_dir = "none")
    /\ [](pc \in {"source", "assembler", "object", "move", "symbols",
                  "relocations", "write"} => temp_dir = "held")
    /\ [](Returned => temp_dir # "held")
    /\ [][temp_dir' # temp_dir =>
            \/ temp_dir = "none" /\ temp_dir' = "held" /\ pc = "temp_dir"
            \/ temp_dir = "held" /\ temp_dir' = "released" /\ Returned']_vars
    /\ (temp_dir = "held") ~> (Returned /\ temp_dir = "released")

\* the call has returned Ok and the directory is gone
C33_Witness ==
    /\ pc = "done"
    /\ temp_dir = "released"

(***************************************************************************)
(* The extent of the late rodata                                           *)
(***************************************************************************)
WrongLateRodataSize == "computed wrong size of .late_rodata"

\* the bytes of .late_rodata finish accounts for
AccountedLateRodata ==
    4 * Len(fin.fn.late_rodata_dummy_bytes) + fin.fn.jtbl_rodata_size

\* the bytes fixup_objfile expects between _asmpp_late_rodata_start and
\* _asmpp_late_rodata_end
ExpectedLateRodata ==
    4 * SumSeq([i \in DOMAIN merge.all_late_rodata_dummy_bytes |->
                  Len(merge.all_late_rodata_dummy_bytes[i])])
      + SumSeq(merge.all_jtbl_rodata_size)

\* C34: for every block finish accepts, four bytes per dummy word plus the
\* size of the jump table is the size process_line counted for
\* .late_rodata, whatever the alignment, mips1, pascal and whether there is
\* a jump table; fixup_objfile expects that many bytes between the two
\* labels, so with an assembler that gives the lines the sizes counted the
\* merge never fails with `computed wrong size of .late_rodata`.
C34_LateRodataExtent ==
    /\ fin # NoFin /\ fin.status = "ok" =>
          AccountedLateRodata = blk.fn_section_sizes["LateRodata"]
    /\ pc \in {"move", "symbols", "relocations", "write", "done"} =>
          ExpectedLateRodata = blk.fn_section_sizes["LateRodata"]
    /\ perr # WrongLateRodataSize

\* a block with a dummy double and a jump table has been merged
C34_Witness ==
    /\ pc = "done"
    /\ blk.late_rodata_alignment = 8
    /\ Len(fin.fn.late_rodata_dummy_bytes) = 2
    /\ fin.fn.jtbl_rodata_size = 24
    /\ AccountedLateRodata = 32

(***************************************************************************)
(* The subtraction of the jump-table test                                  *)
(***************************************************************************)
\* C35: whenever finish evaluates num_instr - late_rodata_fn_output.len()
\* the late-rodata slots generated so far are at most the text
\* instructions of the block, so the subtraction never underflows.
C35_SubtractionNeverUnderflows ==
    fin # NoFin =>
       /\ fin.err # OverflowPanic
       /\ \A k \in DOMAIN fin.jtbl_tests :
             fin.jtbl_tests[k][2] <= fin.jtbl_tests[k][1]

(***************************************************************************)
(* The offsets of the late rodata that was moved                           *)
(***************************************************************************)
MissingOffset == "panic: key not found in moved_late_rodata"

\* the value of the label of that name in the assembled object
LabelValue(name) ==
    LET i == CHOOSE i \in DOMAIN asm_objfile.symbol_entries :
                asm_objfile.symbol_entries[i].name = name
    IN asm_objfile.symbol_entries[i].st_value

\* the word offsets from _asmpp_late_rodata_start up to
\* _asmpp_late_rodata_end
SourceRange ==
    {o \in LabelValue("_asmpp_late_rodata_start")
             ..(LabelValue("_asmpp_late_rodata_end") - 1) : o % 4 = 0}

\* moved_late_rodata has a key for every word of the source range, and the
\* targets go up with the sources
MovedLateRodataIsTotal ==
    pc \in {"symbols", "relocations", "write", "done"} =>
       /\ DOMAIN merge.moved_late_rodata = SourceRange
       /\ \A a, b \in SourceRange :
             a < b => merge.moved_late_rodata[a] < merge.moved_late_rodata[b]

\* C36: after the late rodata was placed moved_late_rodata is total and
\* strictly increasing on the source range, so no symbol of .late_rodata
\* with a value other than 0 and no relocation of .late_rodata is looked up
\* at an offset that is missing, a label at the end of the data included.
C36_EveryOffsetIsRemapped ==
    /\ MovedLateRodataIsTotal
    /\ perr # MissingOffset

(***************************************************************************)
(* The regions of the temp symbols and the padding of the source           *)
(***************************************************************************)
\* the size recorded for the temp symbol name in function.data
RecordedSize(name) ==
    LET at == {p \in (DOMAIN functions) \X Range(OUTPUT_SECTIONS) :
                 functions[p[1]].data[p[2]].name = name}
    IN IF at = {} THEN 0
       ELSE LET p == CHOOSE p \in at : TRUE
            IN functions[p[1]].data[p[2]].size

\* the temp symbols named in function.data
RecordedNames ==
    {functions[p[1]].data[p[2]].name :
       p \in (DOMAIN functions) \X Range(OUTPUT_SECTIONS)} \ {NoName}

\* the assembler's location counters over the source lines: `nop` is one
\* word, `.space n` n bytes, `.word 0, 0` two words, and the lines of a
\* function between its _asm_start and _asm_end labels of a section fill
\* the size recorded for it; lay.labels holds <<name, section, offset>>
RECURSIVE Layout(_, _)
Layout(asm, lay) ==
    IF asm = <<>> THEN lay
    ELSE LET t == Head(asm)
             cur == lay.cur
             ends == {n \in RecordedNames : Len(t) = 2 /\ t[2] = n \o "_asm_end"}
             start == IF ends = {} THEN {}
                      ELSE {l \in lay.labels :
                              /\ l[1] = (CHOOSE n \in ends : TRUE) \o "_asm_start"
                              /\ l[2] = cur}
             here == IF t[1] = "glabel" /\ start # {}
                     THEN (CHOOSE l \in start : TRUE)[3]
                            + RecordedSize(CHOOSE n \in ends : TRUE)
                     ELSE lay.at[cur]
             next ==
               CASE t[1] = ".section" -> [lay EXCEPT !.cur = t[2]]
                 [] t[1] = ".text" -> [lay EXCEPT !.cur = ".text"]
                 [] t[1] = "nop" -> [lay EXCEPT !.at[cur] = @ + 4 * t[2]]
                 [] t[1] = ".space" -> [lay EXCEPT !.at[cur] = @ + t[2]]
                 [] t[1] = ".word" -> [lay EXCEPT !.at[cur] = @ + 4 * t[2]]
                 [] t[1] = "glabel" ->
                      [lay EXCEPT !.at[cur] = here,
                                  !.labels = @ \cup {<<t[2], cur, here>>}]
                 [] OTHER -> lay
         IN Layout(Tail(asm), next)

AssembledLabels(asm) ==
    Layout(asm, [cur |-> ".text",
                 at |-> [s \in Range(OUTPUT_SECTIONS) \cup {".late_rodata"} |-> 0],
                 labels |-> {}]).labels

\* the regions of a section follow each other without overlap
RegionsInOrder(s) ==
    \A i \in DOMAIN merge.to_copy[s], j \in DOMAIN merge.to_copy[s] :
       i < j => merge.to_copy[s][i].loc + merge.to_copy[s][i].size
                   <= merge.to_copy[s][j].loc

\* prev_locs is the end of the last region of the section
PrevLocIsEnd(s) ==
    LET tc == merge.to_copy[s]
    IN merge.prev_locs[s] = IF tc = <<>> THEN 0
                            ELSE tc[Len(tc)].loc + tc[Len(tc)].size

\* the source holds the lines of the function the region belongs to
Assembled(c) ==
    \E k \in DOMAIN merge.asm :
       merge.asm[k] = <<"glabel", c.temp_name \o "_asm_start">>

\* the label of every region whose function, like those of the regions
\* before it, was assembled at its recorded size stands at the region's loc
LabelsAtLoc(s) ==
    LET tc == merge.to_copy[s]
    IN \A i \in DOMAIN tc :
          (\A k \in 1..i : Assembled(tc[k]))
             => <<tc[i].temp_name \o "_asm_start", s, tc[i].loc>>
                   \in AssembledLabels(merge.asm)

\* the stub's symbol of function n in section s
StubSymbol(n, s) == find_symbol(stub.symbol_entries, functions[n].data[s].name)

\* function n has all its temp symbols in the stub
AllInStub(n) ==
    \A s \in Range(OUTPUT_SECTIONS) :
       functions[n].data[s].name # NoName => StubSymbol(n, s).found

\* a temp symbol of the stub lies before the end of the region of the
\* function before it
Overlap ==
    \E n \in DOMAIN functions, m \in DOMAIN functions, s \in Range(OUTPUT_SECTIONS) :
       /\ n < m
       /\ AllInStub(n) /\ AllInStub(m)
       /\ functions[n].data[s].name # NoName
       /\ functions[m].data[s].name # NoName
       /\ StubSymbol(m, s).st_value
            < StubSymbol(n, s).st_value + functions[n].data[s].size

WronglyComputed == perr = "panic: Wrongly computed size for section"

\* C37: the regions collected for a section are in increasing order and
\* disjoint and prev_locs is the end of the last one; a temp symbol before
\* the end of the previous function's region aborts the run as a wrongly
\* computed size, and nothing else does; and the nops and .space written
\* before a function put its _asm_start label at the loc of its region,
\* provided the functions assemble to their recorded sizes
C37_RegionsOrderedAndPadded ==
    /\ Collected_Functions =>
         \A s \in Range(OUTPUT_SECTIONS) :
            RegionsInOrder(s) /\ PrevLocIsEnd(s) /\ LabelsAtLoc(s)
    /\ Overlap /\ pc # "assemble" => pc = "failed" /\ WronglyComputed
    /\ WronglyComputed =>
         \E n \in DOMAIN functions, m \in DOMAIN functions,
            s \in Range(OUTPUT_SECTIONS) :
            /\ n < m
            /\ StubSymbol(n, s).found /\ StubSymbol(m, s).found
            /\ StubSymbol(m, s).st_value
                 < StubSymbol(n, s).st_value + functions[n].data[s].size

\* both functions were collected, the second behind a gap in .text and the
\* first behind a gap in .data
C37_Witness ==
    /\ pc = "done"
    /\ Len(merge.to_copy[".text"]) = 2
    /\ merge.to_copy[".text"][2].loc > merge.to_copy[".text"][1].loc
                                         + merge.to_copy[".text"][1].size
    /\ merge.to_copy[".data"] # <<>>
    /\ merge.to_copy[".data"][1].loc > 0
    /\ \E k \in DOMAIN merge.asm : merge.asm[k] = <<"nop", 1>>
    /\ \E k \in DOMAIN merge.asm : merge.asm[k] = <<".space", 4>>

\* the run that stopped at an overlap
C37_WitnessAbort == Overlap /\ pc = "failed" /\ WronglyComputed

(***************************************************************************)
(* The alignment of a block's late rodata, once known                      *)
(***************************************************************************)
\* a line was fed to a block whose alignment was known
AlignmentKnownBefore ==
    /\ last_line # <<>>
    /\ last_line[2].late_rodata_alignment # 0

\* the last line asks for, or as a .double in .late_rodata implies, an
\* alignment other than the one the block had
Disagrees ==
    LET l == last_line[1]
        before == last_line[2]
    IN /\ ~l.glue
       /\ \/ /\ l.d = "late_rodata_alignment"
             /\ l.n # before.late_rodata_alignment
          \/ /\ l.d = "double"
             /\ before.cur_section = "LateRodata"
             /\ ImpliedAlignment(before.fn_section_sizes["LateRodata"])
                   # before.late_rodata_alignment

\* C38: the alignment of a block is 0, 4 or 8, and a line fed to a block
\* whose alignment is not 0 leaves it as it was: a directive or a .double
\* that disagrees with it is rejected.
C38_AlignmentIsFixedOnceKnown ==
    /\ blk.late_rodata_alignment \in {0, 4, 8}
    /\ AlignmentKnownBefore =>
          /\ blk.late_rodata_alignment = last_line[2].late_rodata_alignment
          /\ Disagrees => blk.err # "none"

\* a .double accepted at the alignment a directive recorded, and a
\* directive rejected for the alignment a .double implied
C38_Witness ==
    /\ AlignmentKnownBefore
    /\ blk.err = "none"
    /\ last_line[1].d = "double"
    /\ ~last_line[1].glue
    /\ ~last_line[2].late_rodata_alignment_from_context
    /\ blk.late_rodata_alignment = 8

C38_WitnessRejected ==
    /\ AlignmentKnownBefore
    /\ Disagrees
    /\ last_line[1].d = "late_rodata_alignment"
    /\ last_line[1].n \in {4, 8}
    /\ blk.err # "none"

(***************************************************************************)
(* The blocks open at the end of the source file                           *)
(***************************************************************************)
\* the source lines read so far that had the role r
LinesOfRole(r) == {k \in DOMAIN roles : roles[k] = r}

\* C39: when parse_source returns its result, no block is open: every
\* `GLOBAL_ASM(` line read was answered by a closing line that made one
\* function of the block, and no line of a block stands empty in the output
\* without a function made of it.
C39_EveryBlockIsResolved ==
    pc = "done" =>
       /\ ~in_block
       /\ Cardinality(LinesOfRole("open")) = Cardinality(LinesOfRole("close"))
       /\ \A k \in LinesOfRole("asm") :
             \E i \in DOMAIN blocks : blocks[i].first <= k /\ k <= blocks[i].last

=============================================================================
